---------------------------- MODULE Spec2Model ----------------------------
(***************************************************************************)
(* dux: worktree identity and stateless port allocation.                   *)
(*                                                                         *)
(* Strings are sequences of one-character strings, so that concatenation,  *)
(* slicing and hashing are computed as the code computes them.  A call     *)
(* that can raise returns a record [exc, value]: exc = "none" for a normal *)
(* return, otherwise the name of the exception.                            *)
(***************************************************************************)
EXTENDS Integers, Sequences, FiniteSets, TLC

VARIABLES
    refs,       \* git: the names `git rev-parse --verify` resolves (branches)
    disk,       \* filesystem: the directories that exist
    registry,   \* git: the registered worktrees, [path, branch], main first
    wtconfig,   \* git: path -> value of issuewt.port in that worktree's config
    wtcfg,      \* git: whether `git config --worktree` works in this repository
    files,      \* filesystem: file path -> its lines (environment files)
    cfgfile,    \* filesystem: the lines of .dux.yml, or NoFile
    prs,        \* GitHub: branch -> state of the pull request of that head
    remote,     \* origin: branch -> commits it is ahead of the base (0 or 1)
    last,       \* the outcome of the last create invocation
    invocations,\* the number of create invocations so far
    bound,      \* host: the ports something listens on at 127.0.0.1
    d_calls,    \* derive_context_branch harness: the calls made so far
    a_base,     \* allocate_port harness: base_port of the calls
    a_span,     \* allocate_port harness: span of the calls
    a_used,     \* allocate_port harness: the used set handed to the next call
    a_calls,    \* allocate_port harness: the calls made so far, in order
    f_in,       \* function harness: the arguments of the call
    f_out,      \* function harness: what the call returned
    procs       \* concurrent creates: process -> where it is and what it holds

allocVars == <<a_base, a_span, a_used, a_calls>>
deriveVars == <<d_calls>>
callVars == <<f_in, f_out>>
raceVars == <<procs>>
repoVars == <<refs, disk, registry, wtconfig, wtcfg, files, cfgfile, prs, remote,
              last, invocations>>
vars == <<repoVars, bound, deriveVars, allocVars, callVars, raceVars>>

(***************************************************************************)
(* Let(v, F) is F(v) with v evaluated once: the value of a statement       *)
(* `x = v` that the following statements read several times.               *)
(***************************************************************************)
Let(v, F(_)) == CHOOSE r \in {F(x) : x \in {v}} : TRUE

(***************************************************************************)
(* Bounds of the model.                                                    *)
(***************************************************************************)
\* spans 1..MaxSpan are tried by the allocate_port harness
MaxSpan == 2
\* the harness draws used and bound ports from base_port .. base_port + MaxOff
MaxOff == 4
\* the derive_context_branch harness lets <base>, <base>-2 .. <base>-MaxSuffix exist
MaxSuffix == 3
\* the slugify harness draws texts of up to MaxText characters
MaxText == 4
\* the find_existing_worktree_path harness lists up to MaxListed worktrees
MaxListed == 2
\* the read_worktree_port and ensure_env_port harnesses draw environment files
\* of up to MaxEnvLines lines
MaxEnvLines == 2

(***************************************************************************)
(* Characters and strings.                                                 *)
(***************************************************************************)
LowerLetters ==
    <<"a","b","c","d","e","f","g","h","i","j","k","l","m",
      "n","o","p","q","r","s","t","u","v","w","x","y","z">>
UpperLetters ==
    <<"A","B","C","D","E","F","G","H","I","J","K","L","M",
      "N","O","P","Q","R","S","T","U","V","W","X","Y","Z">>
DigitChars == <<"0","1","2","3","4","5","6","7","8","9">>

IndexOf(seq, c) == CHOOSE i \in 1..Len(seq) : seq[i] = c
Contains(seq, c) == \E i \in 1..Len(seq) : seq[i] = c

\* the UTF-8 byte of a character (all characters used are ASCII)
Ord(c) ==
    IF Contains(LowerLetters, c) THEN 96 + IndexOf(LowerLetters, c)
    ELSE IF Contains(UpperLetters, c) THEN 64 + IndexOf(UpperLetters, c)
    ELSE IF Contains(DigitChars, c) THEN 47 + IndexOf(DigitChars, c)
    ELSE CASE c = " " -> 32
           [] c = "!" -> 33
           [] c = "-" -> 45
           [] c = "." -> 46
           [] c = "/" -> 47
           [] c = "=" -> 61
           [] c = "_" -> 95

(***************************************************************************)
(* String helpers: str(n), str.lower(), str.strip().split(), " ".join().   *)
(***************************************************************************)
RECURSIVE IntToStr(_)
\* str(n)
IntToStr(n) ==
    IF n < 0 THEN <<"-">> \o IntToStr(0 - n)
    ELSE IF n < 10 THEN <<DigitChars[n + 1]>>
    ELSE IntToStr(n \div 10) \o <<DigitChars[(n % 10) + 1]>>

LowerChar(c) ==
    IF Contains(UpperLetters, c) THEN LowerLetters[IndexOf(UpperLetters, c)] ELSE c
Lower(s) == [i \in 1..Len(s) |-> LowerChar(s[i])]

IsSpace(c) == c = " "

RECURSIVE SplitFrom(_, _, _)
\* str.split(): the whitespace-separated words of s from position i on,
\* `word` being the word under construction
SplitFrom(s, i, word) ==
    IF i > Len(s) THEN (IF word = <<>> THEN <<>> ELSE <<word>>)
    ELSE IF IsSpace(s[i])
         THEN (IF word = <<>> THEN <<>> ELSE <<word>>) \o SplitFrom(s, i + 1, <<>>)
         ELSE SplitFrom(s, i + 1, Append(word, s[i]))
Split(s) == SplitFrom(s, 1, <<>>)

RECURSIVE JoinSpace(_)
\* " ".join(words)
JoinSpace(words) ==
    IF words = <<>> THEN <<>>
    ELSE IF Len(words) = 1 THEN words[1]
    ELSE words[1] \o <<" ">> \o JoinSpace(Tail(words))

\* words[:n]
FirstN(words, n) == SubSeq(words, 1, IF Len(words) < n THEN Len(words) ELSE n)

(***************************************************************************)
(* slugify (utils.py).                                                     *)
(***************************************************************************)
IsSlugChar(c) == Contains(LowerLetters, c) \/ Contains(DigitChars, c)

RECURSIVE CollapseFrom(_, _, _)
\* re.sub(r"[^a-z0-9]+", "-", s): every maximal run of other characters
\* becomes one hyphen
CollapseFrom(s, i, inRun) ==
    IF i > Len(s) THEN <<>>
    ELSE IF IsSlugChar(s[i]) THEN <<s[i]>> \o CollapseFrom(s, i + 1, FALSE)
    ELSE IF inRun THEN CollapseFrom(s, i + 1, TRUE)
    ELSE <<"-">> \o CollapseFrom(s, i + 1, TRUE)

RECURSIVE StripLeading(_)
StripLeading(s) ==
    IF s # <<>> /\ Head(s) = "-" THEN StripLeading(Tail(s)) ELSE s
RECURSIVE StripTrailing(_)
StripTrailing(s) ==
    IF s # <<>> /\ s[Len(s)] = "-" THEN StripTrailing(SubSeq(s, 1, Len(s) - 1)) ELSE s
\* re.sub(r"^-+|-+$", "", s)
StripHyphens(s) == StripTrailing(StripLeading(s))

Str_work == <<"w","o","r","k">>

\* mutant: an empty slug is returned as it is
slugify_nofallback(text) == StripHyphens(CollapseFrom(Lower(text), 1, FALSE))

slugify(text) ==
    LET s == StripHyphens(CollapseFrom(Lower(text), 1, FALSE))
    IN  IF s = <<>> THEN Str_work ELSE s

(***************************************************************************)
(* The repository.  The `root` argument of the code's functions is the     *)
(* repository at that path: here it is a record of the path and of what    *)
(* git and the filesystem hold, so that a function called in the middle of *)
(* an operation reads the state the operation has produced so far.         *)
(***************************************************************************)
RootPath == <<"/","r">>
NoFile == <<"<missing>">>

Repo ==
    [path |-> RootPath, refs |-> refs, disk |-> disk, worktrees |-> registry,
     wtconfig |-> wtconfig, wtcfg |-> wtcfg, files |-> files,
     cfgfile |-> cfgfile, prs |-> prs, remote |-> remote]

(***************************************************************************)
(* worktree_dir, branch_exists, derive_context_branch (worktree.py).       *)
(***************************************************************************)
\* str(Path(root) / ".wt" / branch)
worktree_dir(root, branch) == root.path \o <<"/",".","w","t","/">> \o branch

\* the worktree directory of a branch of the modelled repository
WtDir(branch) == worktree_dir([path |-> RootPath], branch)

\* Path(p).exists() for a directory p
PathExists(root, p) == p \in root.disk

\* git rev-parse --verify <branch> succeeds
branch_exists(root, branch) == branch \in root.refs

RECURSIVE DeriveLoop_branch_only(_, _, _, _)
\* mutant: only the branch ref is consulted, not the directory
DeriveLoop_branch_only(root, base_branch, candidate, suffix) ==
    IF branch_exists(root, candidate)
    THEN DeriveLoop_branch_only(root, base_branch,
             base_branch \o <<"-">> \o IntToStr(suffix), suffix + 1)
    ELSE candidate

RECURSIVE DeriveLoop_dir_only(_, _, _, _)
\* mutant: only the directory is consulted, not the branch ref
DeriveLoop_dir_only(root, base_branch, candidate, suffix) ==
    IF PathExists(root, worktree_dir(root, candidate))
    THEN DeriveLoop_dir_only(root, base_branch,
             base_branch \o <<"-">> \o IntToStr(suffix), suffix + 1)
    ELSE candidate

RECURSIVE DeriveLoop_skips(_, _, _, _)
\* mutant: the suffix grows by 2
DeriveLoop_skips(root, base_branch, candidate, suffix) ==
    IF branch_exists(root, candidate) \/ PathExists(root, worktree_dir(root, candidate))
    THEN DeriveLoop_skips(root, base_branch,
             base_branch \o <<"-">> \o IntToStr(suffix), suffix + 2)
    ELSE candidate

RECURSIVE DeriveLoop_increment_first(_, _, _, _)
\* mutant: the suffix is incremented before the candidate is formatted
DeriveLoop_increment_first(root, base_branch, candidate, suffix) ==
    IF branch_exists(root, candidate) \/ PathExists(root, worktree_dir(root, candidate))
    THEN DeriveLoop_increment_first(root, base_branch,
             base_branch \o <<"-">> \o IntToStr(suffix + 1), suffix + 1)
    ELSE candidate

RECURSIVE DeriveLoop(_, _, _, _)
\* the while loop: `candidate` is probed, `suffix` is the next suffix
DeriveLoop(root, base_branch, candidate, suffix) ==
    IF branch_exists(root, candidate) \/ PathExists(root, worktree_dir(root, candidate))
    THEN DeriveLoop(root, base_branch,
             base_branch \o <<"-">> \o IntToStr(suffix), suffix + 1)
    ELSE candidate

derive_context_branch(root, context, prefix, word_limit) ==
    LET words == Split(context)
        snippet == IF words # <<>> THEN JoinSpace(FirstN(words, word_limit)) ELSE <<>>
        slug0 == slugify(snippet)
        slug == IF slug0 = <<>> THEN Str_work ELSE slug0
        base_branch == prefix \o <<"/">> \o slug
    IN  DeriveLoop(root, base_branch, base_branch, 2)

\* the defaults of derive_context_branch: prefix="work", word_limit=5
DefaultPrefix == Str_work
DefaultWordLimit == 5

(***************************************************************************)
(* Results of calls that can raise.                                        *)
(***************************************************************************)
Returned(v) == [exc |-> "none", value |-> v]
Raised(e) == [exc |-> e, value |-> 0]

(***************************************************************************)
(* stable_hash: 32-bit FNV-1a.  The accumulator is kept as two 16-bit      *)
(* halves <<hi, lo>> because a 32-bit value does not fit the checker's     *)
(* integers; the arithmetic is exactly (h * prime) & 0xFFFFFFFF.           *)
(***************************************************************************)
Word == 65536

RECURSIVE Xor(_, _, _)
\* bitwise exclusive or of the low `bits` bits of a and b
Xor(a, b, bits) ==
    IF bits = 0 THEN 0
    ELSE (((a % 2) + (b % 2)) % 2) + 2 * Xor(a \div 2, b \div 2, bits - 1)

\* 0x811C9DC5 as <<0x811C, 0x9DC5>>
FnvOffsetBasis == <<33052, 40389>>
\* 0x01000193 as <<0x0100, 0x0193>>
FnvPrime == <<256, 403>>

\* h ^= ch
FnvXor(h, ch) == <<h[1], (h[2] \div 256) * 256 + Xor(h[2] % 256, ch, 8)>>
\* h = (h * fnv_prime) & 0xFFFFFFFF
FnvMul(h) ==
    LET low == h[2] * FnvPrime[2]
        high == (low \div Word) + h[1] * FnvPrime[2] + h[2] * FnvPrime[1]
    IN  <<high % Word, low % Word>>

RECURSIVE FnvFold(_, _, _)
FnvFold(h, value, i) ==
    IF i > Len(value) THEN h
    ELSE Let(FnvMul(FnvXor(h, Ord(value[i]))), LAMBDA next : FnvFold(next, value, i + 1))

\* mutant: a hash salted per process, as Python's built-in hash() of a str is
\* (the salt is the number of the call)
stable_hash_salted(value) ==
    FnvFold(<<FnvOffsetBasis[1], FnvOffsetBasis[2] - Len(a_calls)>>, value, 1)

stable_hash(value) == FnvFold(FnvOffsetBasis, value, 1)

\* h % n for the 32-bit value h = <<hi, lo>>
HashMod(h, n) == ((h[1] % n) * (Word % n) + (h[2] % n)) % n

(***************************************************************************)
(* port_in_use and allocate_port.                                          *)
(***************************************************************************)
\* mutant: the probe reports every port free
port_in_use_never(port) == FALSE

\* connect_ex(("127.0.0.1", port)) == 0
port_in_use(port) == port \in bound

NoFreePort == Raised("SystemExit")

\* mutant: the starting port is not reduced modulo span
AllocStart_nomod(branch, base_port, span) ==
    base_port + HashMod(stable_hash(branch), span + span)

AllocStart(branch, base_port, span) ==
    base_port + HashMod(stable_hash(branch), span)

RECURSIVE AllocProbe_ignores_used(_, _, _, _)
\* mutant: the used set is not consulted
AllocProbe_ignores_used(start, i, used, span) ==
    IF i >= span * 2 THEN NoFreePort
    ELSE LET p == start + i
         IN  IF port_in_use(p) THEN AllocProbe_ignores_used(start, i + 1, used, span)
             ELSE Returned(p)

RECURSIVE AllocProbe_fallback(_, _, _, _)
\* mutant: an exhausted window falls back to the next, unchecked port
AllocProbe_fallback(start, i, used, span) ==
    IF i >= span * 2 THEN Returned(start + i)
    ELSE LET p == start + i
         IN  IF p \in used THEN AllocProbe_fallback(start, i + 1, used, span)
             ELSE IF port_in_use(p) THEN AllocProbe_fallback(start, i + 1, used, span)
             ELSE Returned(p)

RECURSIVE AllocProbe_from_one(_, _, _, _)
\* mutant: the probe starts one past the starting port
AllocProbe_from_one(start, i, used, span) ==
    IF i >= span * 2 THEN NoFreePort
    ELSE LET p == start + i + 1
         IN  IF p \in used THEN AllocProbe_from_one(start, i + 1, used, span)
             ELSE IF port_in_use(p) THEN AllocProbe_from_one(start, i + 1, used, span)
             ELSE Returned(p)

\* connect_ex(("127.0.0.1", port)) raises OverflowError for a port outside
\* 0..65535
PortOverflows(port) == port < 0 \/ port > 65535

\* `for i in range(0, span * 2)` from iteration i on: a p = start + j that is
\* in `used` or in use is passed over; the first other p is returned, or
\* port_in_use(p) raises when p is no port number at all; SystemExit is
\* raised when the loop ends without one.  The loop is written with
\* quantifiers instead of recursion so that the 1000 iterations of the
\* default span can be evaluated.
AllocProbe(start, i, used, span) ==
    LET Skipped(j) == (start + j) \in used
                          \/ (~PortOverflows(start + j) /\ port_in_use(start + j))
    IN  IF \A j \in i..(span * 2 - 1) : Skipped(j) THEN NoFreePort
        ELSE LET first == CHOOSE j \in i..(span * 2 - 1) :
                              ~Skipped(j) /\ \A k \in i..(j - 1) : Skipped(k)
             IN  IF PortOverflows(start + first) THEN Raised("OverflowError")
                 ELSE Returned(start + first)

allocate_port(branch, base_port, used, span) ==
    AllocProbe(AllocStart(branch, base_port, span), 0, used, span)

(***************************************************************************)
(* Text helpers: startswith, strip, split(sep, 1), replace, int().         *)
(***************************************************************************)
StartsWith(s, pre) == Len(s) >= Len(pre) /\ SubSeq(s, 1, Len(pre)) = pre

RECURSIVE LStrip(_)
LStrip(s) == IF s # <<>> /\ IsSpace(Head(s)) THEN LStrip(Tail(s)) ELSE s
RECURSIVE RStrip(_)
RStrip(s) ==
    IF s # <<>> /\ IsSpace(s[Len(s)]) THEN RStrip(SubSeq(s, 1, Len(s) - 1)) ELSE s
\* s.strip()
Strip(s) == RStrip(LStrip(s))

\* the position of the first c in s, or 0
FirstIndex(s, c) ==
    IF Contains(s, c)
    THEN CHOOSE i \in 1..Len(s) : s[i] = c /\ \A j \in 1..(i - 1) : s[j] # c
    ELSE 0
\* s.split(c, 1)[0] and s.split(c, 1)[1], for s that contains c
BeforeFirst(s, c) == SubSeq(s, 1, FirstIndex(s, c) - 1)
AfterFirst(s, c) == SubSeq(s, FirstIndex(s, c) + 1, Len(s))

RECURSIVE RemoveAll(_, _)
\* s.replace(pat, "")
RemoveAll(s, pat) ==
    IF s = <<>> THEN <<>>
    ELSE IF StartsWith(s, pat) THEN RemoveAll(SubSeq(s, Len(pat) + 1, Len(s)), pat)
    ELSE <<Head(s)>> \o RemoveAll(Tail(s), pat)

RECURSIVE DigitsValue(_, _)
\* the value of the digits of s, underscores skipped, after the value acc
DigitsValue(s, acc) ==
    IF s = <<>> THEN acc
    ELSE IF Head(s) = "_" THEN DigitsValue(Tail(s), acc)
    ELSE DigitsValue(Tail(s), acc * 10 + (IndexOf(DigitChars, Head(s)) - 1))

\* what int() accepts after the sign: digits, single underscores between them
IsIntBody(s) ==
    /\ s # <<>>
    /\ \A i \in 1..Len(s) : Contains(DigitChars, s[i]) \/ s[i] = "_"
    /\ s[1] # "_" /\ s[Len(s)] # "_"
    /\ \A i \in 1..(Len(s) - 1) : ~(s[i] = "_" /\ s[i + 1] = "_")

\* int(text): surrounding whitespace and a sign are accepted
ParseInt(text) ==
    LET t == Strip(text)
        signed == t # <<>> /\ (Head(t) = "-" \/ Head(t) = "+")
        body == IF signed THEN Tail(t) ELSE t
    IN  IF ~IsIntBody(body) THEN Raised("ValueError")
        ELSE IF signed /\ Head(t) = "-" THEN Returned(0 - DigitsValue(body, 0))
        ELSE Returned(DigitsValue(body, 0))

(***************************************************************************)
(* Maps (Python dicts, files by path).                                     *)
(***************************************************************************)
Put(f, k, v) == [x \in (DOMAIN f) \cup {k} |-> IF x = k THEN v ELSE f[x]]
Drop(f, ks) == [x \in (DOMAIN f) \ ks |-> f[x]]
\* d.get(k), with the empty string standing for None (both are falsy)
Get(f, k) == IF k \in DOMAIN f THEN f[k] ELSE <<>>

(***************************************************************************)
(* parse_simple_yaml (config.py).                                          *)
(***************************************************************************)
Key_port == <<"p","o","r","t">>
Key_env == <<"e","n","v">>
Key_install == <<"i","n","s","t","a","l","l">>

RECURSIVE YamlLines(_, _)
\* the loop over the lines of the file, cfg being the dict so far
YamlLines(lines, cfg) ==
    IF lines = <<>> THEN cfg
    ELSE LET line == Strip(Head(lines))
         IN  IF line = <<>> \/ Head(line) = "#" THEN YamlLines(Tail(lines), cfg)
             ELSE IF ~Contains(line, ":") THEN YamlLines(Tail(lines), cfg)
             ELSE YamlLines(Tail(lines),
                      Put(cfg, Strip(BeforeFirst(line, ":")), Strip(AfterFirst(line, ":"))))

\* mutant: the port value is not validated
parse_simple_yaml_unchecked(root) ==
    IF root.cfgfile = NoFile THEN Raised("SystemExit")
    ELSE Returned(YamlLines(root.cfgfile, <<>>))

\* parse_simple_yaml(Path(root) / WT_FILENAME)
parse_simple_yaml(root) ==
    IF root.cfgfile = NoFile THEN Raised("SystemExit")
    ELSE LET cfg == YamlLines(root.cfgfile, <<>>)
         IN  IF Get(cfg, Key_port) # <<>> /\ ParseInt(Get(cfg, Key_port)).exc # "none"
             THEN Raised("SystemExit")
             ELSE Returned(cfg)

(***************************************************************************)
(* parse_worktrees (worktree.py) on git's porcelain listing.               *)
(***************************************************************************)
Str_worktree_sp == <<"w","o","r","k","t","r","e","e"," ">>
Str_branch_sp == <<"b","r","a","n","c","h"," ">>
Str_refs_heads == <<"r","e","f","s","/","h","e","a","d","s","/">>
Str_HEAD == <<"H","E","A","D"," ","0">>
Str_detached == <<"d","e","t","a","c","h","e","d">>

RECURSIVE GitListFrom(_, _)
\* git worktree list --porcelain: per worktree a `worktree` line, a HEAD line,
\* a `branch` line (or `detached`) and an empty line.  An entry with an empty
\* path stands for a block that lacks its `worktree` line.
GitListFrom(entries, i) ==
    IF i > Len(entries) THEN <<>>
    ELSE (IF entries[i].path = <<>> THEN <<>>
          ELSE << Str_worktree_sp \o entries[i].path >>)
         \o << Str_HEAD,
                IF entries[i].branch = <<>> THEN Str_detached
                ELSE Str_branch_sp \o Str_refs_heads \o entries[i].branch,
                <<>> >>
         \o GitListFrom(entries, i + 1)
GitWorktreeList(root) == GitListFrom(root.worktrees, 1)

RECURSIVE ParseLines(_, _, _)
\* the loop of parse_worktrees: `current` is the dict under construction
ParseLines(lines, current, worktrees) ==
    IF lines = <<>>
    THEN (IF DOMAIN current # {} THEN Append(worktrees, current) ELSE worktrees)
    ELSE LET ln == Head(lines)
         IN  IF StartsWith(ln, Str_worktree_sp)
             THEN ParseLines(Tail(lines),
                      [path |-> Strip(AfterFirst(ln, " "))],
                      IF DOMAIN current # {} THEN Append(worktrees, current) ELSE worktrees)
             ELSE IF StartsWith(ln, Str_branch_sp)
             THEN ParseLines(Tail(lines),
                      Put(current, "branch", RemoveAll(Strip(AfterFirst(ln, " ")), Str_refs_heads)),
                      worktrees)
             ELSE ParseLines(Tail(lines), current, worktrees)

parse_worktrees(root) == ParseLines(GitWorktreeList(root), <<>>, <<>>)

(***************************************************************************)
(* find_existing_worktree_path (worktree.py).  None is the empty string.   *)
(***************************************************************************)
RECURSIVE FindIn(_, _, _, _, _)
FindIn(root, worktrees, i, branch, desired_path) ==
    IF i > Len(worktrees) THEN <<>>
    ELSE LET wt_path == Get(worktrees[i], "path")
             wt_branch == Get(worktrees[i], "branch")
         IN  IF wt_path = <<>> \/ wt_branch = <<>>
             THEN FindIn(root, worktrees, i + 1, branch, desired_path)
             ELSE IF PathExists(root, wt_path)
                     /\ (wt_path = desired_path \/ wt_branch = branch)
             THEN wt_path
             ELSE FindIn(root, worktrees, i + 1, branch, desired_path)

\* mutant: no existing worktree is ever found
find_existing_worktree_path_never(root, branch, desired_path) == <<>>

\* mutant: the check of the canonical location is skipped
find_existing_worktree_path_listing_only(root, branch, desired_path) ==
    FindIn(root, parse_worktrees(root), 1, branch, desired_path)

find_existing_worktree_path(root, branch, desired_path) ==
    IF PathExists(root, desired_path) THEN desired_path
    ELSE FindIn(root, parse_worktrees(root), 1, branch, desired_path)

(***************************************************************************)
(* read_worktree_port, used_ports, set_worktree_port (worktree.py) and     *)
(* ensure_env_port (config.py).                                            *)
(***************************************************************************)
\* return None
NoPort == 0
ValidPort(p) == 1 <= p /\ p <= 65535
Str_PORT_eq == <<"P","O","R","T","=">>

\* git -C <path> config --worktree --get issuewt.port
GitConfigGet(root, path) ==
    IF root.wtcfg /\ PathExists(root, path) /\ path \in DOMAIN root.wtconfig
    THEN Returned(root.wtconfig[path])
    ELSE Raised("CalledProcessError")

\* Path(path) / name
FilePath(path, name) == path \o <<"/">> \o name

RECURSIVE LastSegment(_)
\* env_key.split("/")[-1]
LastSegment(s) == IF Contains(s, "/") THEN LastSegment(AfterFirst(s, "/")) ELSE s

RECURSIVE EnvPortFrom_unchecked(_, _)
\* mutant: the value of the PORT line is not range-checked
EnvPortFrom_unchecked(lines, i) ==
    IF i > Len(lines) THEN NoPort
    ELSE IF StartsWith(Strip(lines[i]), Str_PORT_eq)
    THEN LET p == ParseInt(Strip(AfterFirst(lines[i], "=")))
         IN  IF p.exc # "none" THEN NoPort ELSE p.value
    ELSE EnvPortFrom_unchecked(lines, i + 1)

RECURSIVE EnvPortFrom(_, _)
\* the loop over the lines of the environment file; an int() failure leaves
\* the loop through the except clause
EnvPortFrom(lines, i) ==
    IF i > Len(lines) THEN NoPort
    ELSE IF StartsWith(Strip(lines[i]), Str_PORT_eq)
    THEN LET p == ParseInt(Strip(AfterFirst(lines[i], "=")))
         IN  IF p.exc # "none" THEN NoPort
             ELSE IF ValidPort(p.value) THEN p.value
             ELSE EnvPortFrom(lines, i + 1)
    ELSE EnvPortFrom(lines, i + 1)

\* the second try block of read_worktree_port
EnvFilePort(root, path, env_key) ==
    LET name == LastSegment(env_key)
        env_path == FilePath(path, name)
    IN  IF name # <<>> /\ env_path \in DOMAIN root.files
        THEN EnvPortFrom(root.files[env_path], 1)
        ELSE NoPort

\* mutant: the environment file is consulted first
read_worktree_port_env_first(root, path, env_key) ==
    LET e == EnvFilePort(root, path, env_key)
        val == GitConfigGet(root, path)
        p == IF val.exc = "none" /\ val.value # <<>> THEN ParseInt(val.value)
             ELSE Raised("none-read")
    IN  IF e # NoPort THEN e
        ELSE IF p.exc = "none" /\ ValidPort(p.value) THEN p.value
        ELSE NoPort

read_worktree_port(root, path, env_key) ==
    LET val == GitConfigGet(root, path)
        p == IF val.exc = "none" /\ val.value # <<>> THEN ParseInt(val.value)
             ELSE Raised("none-read")
    IN  IF p.exc = "none" /\ ValidPort(p.value) THEN p.value
        ELSE EnvFilePort(root, path, env_key)

RECURSIVE UsedFrom(_, _, _, _)
UsedFrom(root, worktrees, i, env_key) ==
    IF i > Len(worktrees) THEN {}
    ELSE LET pth == Get(worktrees[i], "path")
             p == IF pth = <<>> THEN NoPort ELSE read_worktree_port(root, pth, env_key)
         IN  (IF p # NoPort THEN {p} ELSE {}) \cup UsedFrom(root, worktrees, i + 1, env_key)

used_ports(root, env_key) == UsedFrom(root, parse_worktrees(root), 1, env_key)

\* git -C <dir_path> config --worktree issuewt.port <port>, failures swallowed
set_worktree_port(root, dir_path, port) ==
    IF root.wtcfg /\ PathExists(root, dir_path)
    THEN [root EXCEPT !.wtconfig = Put(root.wtconfig, dir_path, IntToStr(port))]
    ELSE root

\* mutant: PORT= lines are recognised after stripping, as read_worktree_port does
EnsureLine_stripped(raw, port) ==
    IF StartsWith(Strip(raw), Str_PORT_eq) THEN Str_PORT_eq \o IntToStr(port) ELSE raw

\* one line of the rewrite loop of ensure_env_port
EnsureLine(raw, port) ==
    IF StartsWith(raw, Str_PORT_eq) THEN Str_PORT_eq \o IntToStr(port) ELSE raw

\* ensure_env_port on the lines of the file (NoFile when it does not exist)
EnsureLines(old, port) ==
    LET src == IF old = NoFile THEN <<>> ELSE old
        lines == [i \in 1..Len(src) |-> EnsureLine(src[i], port)]
        found == \E i \in 1..Len(src) : StartsWith(src[i], Str_PORT_eq)
    IN  IF found THEN lines ELSE Append(lines, Str_PORT_eq \o IntToStr(port))

ensure_env_port(root, env_file, port) ==
    [root EXCEPT !.files = Put(root.files, env_file,
        EnsureLines(IF env_file \in DOMAIN root.files THEN root.files[env_file] ELSE NoFile,
                    port))]

(***************************************************************************)
(* git_worktree_add, bootstrap_worktree (worktree.py).  A step that can    *)
(* raise returns [exc, root]: the exception and the repository it leaves.  *)
(***************************************************************************)
Step(e, root) == [exc |-> e, root |-> root]

CheckedOut(root, branch) ==
    \E i \in 1..Len(root.worktrees) : root.worktrees[i].branch = branch

\* `git_ok` is whether git can do it at all (origin/<base> exists, an existing
\* target directory is empty).  An existing branch is attached, which git
\* refuses when a registered worktree has the branch checked out; otherwise
\* the branch is created.
git_worktree_add(root, branch, dir_path, base_branch, git_ok) ==
    IF ~git_ok \/ (branch_exists(root, branch) /\ CheckedOut(root, branch))
    THEN Step("CalledProcessError", root)
    ELSE Step("none",
             [root EXCEPT !.refs = @ \cup {branch},
                          !.disk = @ \cup {dir_path},
                          !.worktrees = Append(@, [path |-> dir_path, branch |-> branch])])

\* mutant: a failed push takes the new worktree directory away
push_set_upstream_undoing(root, dir_path, branch, push_ok) ==
    IF push_ok /\ branch \notin DOMAIN root.remote
    THEN [root EXCEPT !.remote = Put(@, branch, 0)]
    ELSE [root EXCEPT !.disk = @ \ {dir_path}]

\* git push -u origin <branch>, a failure swallowed: on success origin has
\* the branch, no commit ahead of the base unless it had some
push_set_upstream(root, dir_path, branch, push_ok) ==
    IF push_ok /\ branch \notin DOMAIN root.remote
    THEN [root EXCEPT !.remote = Put(@, branch, 0)]
    ELSE root

\* with an upstream and nothing ahead of it, git commit --allow-empty and git
\* push; every failure is swallowed (no upstream when the push had failed)
empty_commit_if_needed(root, dir_path, branch, commit_ok) ==
    IF branch \in DOMAIN root.remote /\ commit_ok
    THEN [root EXCEPT !.remote = Put(@, branch, 1)]
    ELSE root

\* shutil.copy2(env_src, env_dst)
CopyFile(root, src, dst) == [root EXCEPT !.files = Put(@, dst, root.files[src])]

\* mutant: the PORT line is rewritten whether or not a port was assigned
BootstrapEnv_always_ensures(root, cfg, dir_path, assigned_port) ==
    LET env == Get(cfg, Key_env)
        env_src == FilePath(root.path, env)
        env_dst == FilePath(dir_path, LastSegment(env))
    IN  IF env # <<>> /\ env_src \in DOMAIN root.files
        THEN ensure_env_port(CopyFile(root, env_src, env_dst), env_dst, assigned_port)
        ELSE root

\* the env-file step: copy, then rewrite the PORT line when a port was assigned
BootstrapEnv(root, cfg, dir_path, assigned_port) ==
    LET env == Get(cfg, Key_env)
        env_src == FilePath(root.path, env)
        env_dst == FilePath(dir_path, LastSegment(env))
    IN  IF env # <<>> /\ env_src \in DOMAIN root.files
        THEN IF assigned_port # NoPort
             THEN ensure_env_port(CopyFile(root, env_src, env_dst), env_dst, assigned_port)
             ELSE CopyFile(root, env_src, env_dst)
        ELSE root

bootstrap_worktree(root, dir_path, assigned_port, install_ok) ==
    Let(parse_simple_yaml(root), LAMBDA parsed :
        IF parsed.exc # "none" THEN Step("SystemExit", root)
        ELSE IF Get(parsed.value, Key_install) # <<>> /\ ~install_ok
        THEN Step("CalledProcessError",
                  BootstrapEnv(root, parsed.value, dir_path, assigned_port))
        ELSE Step("none", BootstrapEnv(root, parsed.value, dir_path, assigned_port)))

(***************************************************************************)
(* process_single_issue, create_context_worktree (commands.py).  A call    *)
(* returns [result, root].  result.status is "created", "exists", "error"  *)
(* (the dict of the except clause) or "abort" (a SystemExit, which         *)
(* `except Exception` does not catch, left the function).  result.added    *)
(* tells whether git_worktree_add succeeded, and branch_existed and        *)
(* dir_existed what held of the branch and directory just before it.       *)
(***************************************************************************)
\* the base port range of allocate_port's default span
DefaultSpan == 500

Outcome(kind, status, branch, dir_path, port, added, root0) ==
    [kind |-> kind, status |-> status, branch |-> branch, dir_path |-> dir_path,
     port |-> port, added |-> added,
     branch_existed |-> branch_exists(root0, branch),
     dir_existed |-> PathExists(root0, dir_path)]

\* gh_pr_view_by_head, then gh_pr_create when there is none; GitHub opens a
\* pull request only for a pushed head with a commit ahead of the base, and a
\* failure leaves pr = {"url": "N/A", ...}
EnsurePr(root, branch, pr_ok) ==
    IF branch \in DOMAIN root.prs \/ ~pr_ok THEN root
    ELSE IF branch \notin DOMAIN root.remote THEN root
    ELSE IF root.remote[branch] = 0 THEN root
    ELSE [root EXCEPT !.prs = Put(@, branch, "OPEN")]

\* mutant: a SystemExit is contained like any other exception
Finish_contained(pre, status, port, added) ==
    [pre EXCEPT !.status = IF status = "abort" THEN "error" ELSE status,
                !.port = port, !.added = added]

\* the result of a create that got as far as git_worktree_add: `pre` is the
\* result with the fields known before it
Finish(pre, status, port, added) ==
    [pre EXCEPT !.status = status, !.port = port, !.added = added]

\* `if not args.no_bootstrap: bootstrap_worktree(...)` and the return; r2 is
\* the repository after set_worktree_port
CreateBootstrap(pre, r2, assigned_port, args, io) ==
    IF args.no_bootstrap
    THEN [result |-> Finish(pre, "created", assigned_port, TRUE), root |-> r2]
    ELSE Let(bootstrap_worktree(r2, pre.dir_path, assigned_port, io.install_ok), LAMBDA boot :
             IF boot.exc = "SystemExit"
             THEN [result |-> Finish(pre, "abort", NoPort, TRUE), root |-> boot.root]
             ELSE IF boot.exc # "none"
             THEN [result |-> Finish(pre, "error", NoPort, TRUE), root |-> boot.root]
             ELSE [result |-> Finish(pre, "created", assigned_port, TRUE), root |-> boot.root])

\* `cfg = parse_simple_yaml(...)` and the allocation; r1 is the repository
\* after git_worktree_add (and the pull request)
CreateAllocate(pre, r1, args, io) ==
    Let(parse_simple_yaml(r1), LAMBDA parsed :
        IF parsed.exc # "none"
        THEN [result |-> Finish(pre, "abort", NoPort, TRUE), root |-> r1]
        ELSE IF Get(parsed.value, Key_port) = <<>>
        THEN CreateBootstrap(pre, r1, NoPort, args, io)
        ELSE Let(allocate_port(pre.branch,
                               ParseInt(Get(parsed.value, Key_port)).value,
                               used_ports(r1, Get(parsed.value, Key_env)),
                               DefaultSpan), LAMBDA alloc :
                 IF alloc.exc = "SystemExit"
                 THEN [result |-> Finish(pre, "abort", NoPort, TRUE), root |-> r1]
                 ELSE IF alloc.exc # "none"
                 THEN [result |-> Finish(pre, "error", NoPort, TRUE), root |-> r1]
                 ELSE Let(set_worktree_port(r1, pre.dir_path, alloc.value), LAMBDA r2 :
                          CreateBootstrap(pre, r2, alloc.value, args, io))))

\* the steps from git_worktree_add to the `created` result, shared by the two
\* create functions; only the issue-backed one opens a pull request
CreateSteps(kind, root, branch, dir_path, base, args, io) ==
    Let(Outcome(kind, "error", branch, dir_path, NoPort, FALSE, root), LAMBDA pre :
    Let(git_worktree_add(root, branch, dir_path, base, io.git_ok), LAMBDA add :
        IF add.exc # "none"
        THEN [result |-> pre, root |-> root]
        ELSE Let(empty_commit_if_needed(
                     push_set_upstream(add.root, dir_path, branch, io.push_ok),
                     dir_path, branch, io.commit_ok), LAMBDA pushed :
             Let(IF kind = "issue" THEN EnsurePr(pushed, branch, io.pr_ok) ELSE pushed,
                 LAMBDA r1 : CreateAllocate(pre, r1, args, io)))))

Str_issue_slash == <<"i","s","s","u","e","/">>

\* branch_slug and full_slug of an issue title
IssueSlugs(title) ==
    LET title_words == Split(title)
        limited_title == IF title_words # <<>> THEN JoinSpace(FirstN(title_words, 5)) ELSE <<>>
        limited_slug == IF limited_title # <<>> THEN slugify(limited_title) ELSE <<>>
    IN  Let(slugify(title), LAMBDA full_slug :
            [full_slug |-> full_slug,
             branch_slug |-> IF limited_slug # <<>> THEN limited_slug ELSE full_slug])

IssueBranch(number, slug) == Str_issue_slash \o IntToStr(number) \o <<"-">> \o slug

\* mutant: only the name built from the first five words is looked up
IssueLookup_truncated_only(issue, root) ==
    Let(IssueSlugs(issue.title), LAMBDA slugs :
    Let(IssueBranch(issue.number, slugs.branch_slug), LAMBDA branch :
        [branch |-> branch,
         existing_path |-> find_existing_worktree_path(root, branch,
                               worktree_dir(root, branch))]))

\* the legacy lookup: (branch, existing_path) after lines 115-124
IssueLookup(issue, root) ==
    Let(IssueSlugs(issue.title), LAMBDA slugs :
    Let(IssueBranch(issue.number, slugs.branch_slug), LAMBDA branch :
    Let(find_existing_worktree_path(root, branch, worktree_dir(root, branch)), LAMBDA existing_path :
        IF existing_path = <<>> /\ slugs.full_slug # <<>> /\ slugs.branch_slug # slugs.full_slug
        THEN Let(IssueBranch(issue.number, slugs.full_slug), LAMBDA legacy_branch :
             Let(find_existing_worktree_path(root, legacy_branch,
                     worktree_dir(root, legacy_branch)), LAMBDA legacy_existing :
                 IF legacy_existing # <<>>
                 THEN [branch |-> legacy_branch, existing_path |-> legacy_existing]
                 ELSE [branch |-> branch, existing_path |-> existing_path]))
        ELSE [branch |-> branch, existing_path |-> existing_path])))

process_single_issue(issue, root, base, args, io) ==
    IF ~io.issue_ok
    THEN [result |-> Outcome("issue", "error", <<>>, <<>>, NoPort, FALSE, root),
          root |-> root]
    ELSE Let(IssueLookup(issue, root), LAMBDA found :
             IF found.existing_path # <<>>
             THEN [result |-> Outcome("issue", "exists", found.branch, found.existing_path,
                                      NoPort, FALSE, root),
                   root |-> root]
             ELSE Let(worktree_dir(root, found.branch), LAMBDA dir_path :
                      CreateSteps("issue", root, found.branch, dir_path, base, args, io)))

create_context_worktree(context, root, base, args, io) ==
    Let(derive_context_branch(root, context, DefaultPrefix, DefaultWordLimit), LAMBDA branch :
    Let(worktree_dir(root, branch), LAMBDA dir_path :
    Let(find_existing_worktree_path(root, branch, dir_path), LAMBDA existing_path :
        IF existing_path # <<>>
        THEN [result |-> Outcome("context", "exists", branch, existing_path, NoPort, FALSE, root),
              root |-> root]
        ELSE CreateSteps("context", root, branch, dir_path, base, args, io))))

(***************************************************************************)
(* cmd_create and cmd_clean (commands.py).                                 *)
(***************************************************************************)
\* the files below a directory
Under(root, dir) == {f \in DOMAIN root.files : StartsWith(f, dir \o <<"/">>)}

\* the registry without the entries at the given positions
Without(entries, gone) ==
    LET keep == {i \in 1..Len(entries) : i \notin gone}
        RECURSIVE Pick(_)
        Pick(i) == IF i > Len(entries) THEN <<>>
                   ELSE (IF i \in keep THEN <<entries[i]>> ELSE <<>>) \o Pick(i + 1)
    IN  Pick(1)

\* git worktree prune: linked worktrees whose directory is gone are forgotten
GitWorktreePrune(root) ==
    LET gone == {i \in 2..Len(root.worktrees) : ~PathExists(root, root.worktrees[i].path)}
    IN  [root EXCEPT !.worktrees = Without(@, gone),
                     !.wtconfig = Drop(@, {root.worktrees[i].path : i \in gone})]

Str_main == <<"m","a","i","n">>
Str_master == <<"m","a","s","t","e","r">>

RECURSIVE ProcessIssues(_, _, _, _, _, _, _)
\* `for issue_num in issue_numbers` from position i on, then
\* handle_multi_results.  A SystemExit leaving process_single_issue leaves the
\* loop and cmd_create ("abort"): `results` then holds the results appended
\* before it, and no summary is made.
ProcessIssues(issue_numbers, i, root, base, args, io, results) ==
    IF i > Len(issue_numbers)
    THEN [result |-> [kind |-> "batch", status |-> "summary",
                      issues |-> issue_numbers, results |-> results],
          root |-> root]
    ELSE Let(process_single_issue(issue_numbers[i], root, base, args, io), LAMBDA out :
             IF out.result.status = "abort"
             THEN [result |-> [kind |-> "batch", status |-> "abort",
                               issues |-> issue_numbers, results |-> results],
                   root |-> out.root]
             ELSE ProcessIssues(issue_numbers, i + 1, out.root, base, args, io,
                                Append(results, out.result)))

\* cmd_create for the issues of --issue (args.issues: one, or several as a
\* batch) or, when there is none, a free-form context (args.context)
cmd_create(root, args, io) ==
    Let(GitWorktreePrune(root), LAMBDA pruned :
        IF Len(args.issues) = 1
        THEN process_single_issue(args.issues[1], pruned, Str_main, args, io)
        ELSE IF Len(args.issues) > 1
        THEN ProcessIssues(args.issues, 1, pruned, Str_main, args, io, <<>>)
        ELSE create_context_worktree(Strip(args.context), pruned, Str_main, args, io))

\* git worktree remove --force <path>: refused for the main worktree and for
\* the paths in `stuck`; then git branch -D, which fails (swallowed) while
\* another worktree has the branch checked out, and git push origin --delete
RemoveWorktree(root, path, branch, stuck) ==
    LET at == {i \in 1..Len(root.worktrees) : root.worktrees[i].path = path}
        r1 == [root EXCEPT !.worktrees = Without(@, at),
                           !.disk = @ \ {path},
                           !.wtconfig = Drop(@, {path}),
                           !.files = Drop(@, Under(root, path))]
        r2 == IF CheckedOut(r1, branch) THEN r1 ELSE [r1 EXCEPT !.refs = @ \ {branch}]
    IN  IF path \in stuck \/ at = {} \/ 1 \in at THEN root
        ELSE [r2 EXCEPT !.remote = Drop(@, {branch})]

RECURSIVE CleanFrom_main_only(_, _, _, _, _)
\* mutant: only "main" is protected, "master" is not
CleanFrom_main_only(root, worktrees, i, all, stuck) ==
    IF i > Len(worktrees) THEN root
    ELSE LET path == Get(worktrees[i], "path")
             branch == Get(worktrees[i], "branch")
             merged == branch \in DOMAIN root.prs /\ root.prs[branch] = "MERGED"
         IN  IF path = <<>> \/ branch = <<>> \/ branch = Str_main
             THEN CleanFrom_main_only(root, worktrees, i + 1, all, stuck)
             ELSE IF all \/ merged
             THEN CleanFrom_main_only(RemoveWorktree(root, path, branch, stuck),
                      worktrees, i + 1, all, stuck)
             ELSE CleanFrom_main_only(root, worktrees, i + 1, all, stuck)

RECURSIVE CleanFrom(_, _, _, _, _)
\* the loop of cmd_clean over the parsed listing
CleanFrom(root, worktrees, i, all, stuck) ==
    IF i > Len(worktrees) THEN root
    ELSE LET path == Get(worktrees[i], "path")
             branch == Get(worktrees[i], "branch")
             merged == branch \in DOMAIN root.prs /\ root.prs[branch] = "MERGED"
         IN  IF path = <<>> \/ branch = <<>> \/ branch \in {Str_main, Str_master}
             THEN CleanFrom(root, worktrees, i + 1, all, stuck)
             ELSE IF all \/ merged
             THEN CleanFrom(RemoveWorktree(root, path, branch, stuck),
                      worktrees, i + 1, all, stuck)
             ELSE CleanFrom(root, worktrees, i + 1, all, stuck)

cmd_clean(root, all, stuck) == CleanFrom(root, parse_worktrees(root), 1, all, stuck)

\* no create invocation has run yet
NoResult == [status |-> "none"]

\* the function harness has made no call
NoCall == [fn |-> "none"]
NoCallYet == f_in = NoCall /\ f_out = NoCall

\* an empty repository, for the harnesses that do not use one
RepoIdle ==
    /\ refs = {} /\ disk = {} /\ registry = <<>> /\ wtconfig = <<>>
    /\ wtcfg = FALSE /\ files = <<>> /\ cfgfile = NoFile /\ prs = <<>> /\ remote = <<>>
    /\ last = NoResult /\ invocations = 0

(***************************************************************************)
(* Spec: one repository, create and clean invocations one at a time, and   *)
(* what the user and GitHub do in between.                                 *)
(***************************************************************************)
\* at most MaxCreates create invocations are made
MaxCreates == 2

Str_env_name == <<".","e","n","v">>
RootEnv == FilePath(RootPath, Str_env_name)
Line_port_3000 == <<"P","O","R","T","=","3","0","0","0">>
Line_indented_port == <<" ","P","O","R","T","=","3","0","0","0">>
Line_other == <<"A","=","1">>
Cfg_port == <<"p","o","r","t",":"," ","3","0","0","0">>
Cfg_env == <<"e","n","v",":"," ",".","e","n","v">>

\* .dux.yml, with a base port and an environment file
CfgFiles == { <<Cfg_port, Cfg_env>> }
\* the environment file of the main worktree, its PORT line indented or not
EnvFiles ==
    { [f \in {RootEnv} |-> <<Line_port_3000, Line_other>>],
      [f \in {RootEnv} |-> <<Line_other, Line_indented_port>>] }

Issue_2 == [number |-> 2, title |-> <<"a"," ","b"," ","c"," ","d"," ","e"," ","f">>]
Issues == {Issue_2}
Ctx_aa == <<"a","a">>
Ctx_df == <<"d","f">>
Contexts == {Ctx_aa, Ctx_df}


\* the outcomes of the external commands of one invocation: at most one of
\* them fails
AllOk == [issue_ok |-> TRUE, git_ok |-> TRUE, push_ok |-> TRUE, commit_ok |-> TRUE,
          pr_ok |-> TRUE, install_ok |-> TRUE]
IoSet ==
    { AllOk,
      [AllOk EXCEPT !.issue_ok = FALSE],
      [AllOk EXCEPT !.git_ok = FALSE],
      [AllOk EXCEPT !.pr_ok = FALSE],
      [AllOk EXCEPT !.install_ok = FALSE] }
\* the invocations of dux create: --no-bootstrap is tried with every command
\* succeeding
Invocations ==
    {[no_bootstrap |-> FALSE, io |-> io] : io \in IoSet}
        \cup {[no_bootstrap |-> TRUE, io |-> AllOk]}

Init ==
    /\ refs = {Str_main}
    /\ disk = {RootPath}
    /\ registry = <<[path |-> RootPath, branch |-> Str_main]>>
    /\ wtconfig = <<>>
    /\ wtcfg \in BOOLEAN
    /\ files \in EnvFiles
    /\ cfgfile \in CfgFiles
    /\ prs = <<>> /\ remote = <<>>
    /\ last = NoResult
    /\ invocations = 0
    /\ bound = {}
    /\ d_calls = <<>>
    /\ a_base = 0 /\ a_span = 1 /\ a_used = {} /\ a_calls = <<>>
    /\ NoCallYet
    /\ procs = <<>>

\* the repository becomes `root`
Becomes(root) ==
    /\ refs' = root.refs
    /\ disk' = root.disk
    /\ registry' = root.worktrees
    /\ wtconfig' = root.wtconfig
    /\ files' = root.files
    /\ prs' = root.prs /\ remote' = root.remote
    /\ UNCHANGED <<wtcfg, cfgfile, bound, deriveVars, allocVars, callVars, raceVars>>

\* the repository becomes `root` by something other than a create invocation
BecomesQuietly(root) == Becomes(root) /\ UNCHANGED <<last, invocations>>

Create(args, io) ==
    /\ invocations < MaxCreates
    /\ invocations' = invocations + 1
    /\ \E out \in {cmd_create(Repo, args, io)} :
           /\ Becomes(out.root)
           /\ last' = out.result

\* dux create --issue <n>
CreateIssue ==
    \E issue \in Issues, inv \in Invocations :
        Create([issues |-> <<issue>>, context |-> <<>>, no_bootstrap |-> inv.no_bootstrap], inv.io)

\* dux create <context>
CreateContext ==
    \E context \in Contexts, inv \in Invocations :
        Create([issues |-> <<>>, context |-> context, no_bootstrap |-> inv.no_bootstrap], inv.io)

LinkedPaths == {registry[i].path : i \in 2..Len(registry)}

\* dux clean [--all]
Clean ==
    \E all \in BOOLEAN, stuck \in SUBSET LinkedPaths :
        \E root \in {cmd_clean(Repo, all, stuck)} :
            BecomesQuietly(root)

\* GitHub: the pull request of a branch is merged
PrMerged ==
    \E b \in DOMAIN prs :
        /\ prs[b] = "OPEN"
        /\ prs' = Put(prs, b, "MERGED")
        /\ UNCHANGED <<remote, refs, disk, registry, wtconfig, wtcfg, files, cfgfile, last, invocations,
                       bound, deriveVars, allocVars, callVars, raceVars>>

\* the user deletes the directory of a linked worktree by hand
ManualRemoveDir ==
    \E p \in LinkedPaths :
        /\ p \in disk
        /\ disk' = disk \ {p}
        /\ files' = Drop(files, Under(Repo, p))
        /\ UNCHANGED <<remote, refs, registry, wtconfig, wtcfg, cfgfile, prs, last, invocations,
                       bound, deriveVars, allocVars, callVars, raceVars>>

Next == CreateIssue \/ CreateContext \/ Clean \/ PrMerged \/ ManualRemoveDir

Spec == Init /\ [][Next]_vars

(***************************************************************************)
(* Claims about the repository.                                            *)
(***************************************************************************)
\* the env entry of .dux.yml, as cmd_create hands it to used_ports
EnvKey == Get(parse_simple_yaml(Repo).value, Key_env)

\* the port read_worktree_port recovers for the i-th listed worktree
Recovered(i) == read_worktree_port(Repo, Get(parse_worktrees(Repo)[i], "path"), EnvKey)

Listed == 1..Len(parse_worktrees(Repo))

\* C1 (as stated): after any sequence of create and clean invocations, no two
\* listed worktrees recover the same port.  The code does not keep this: where
\* `git config --worktree` fails and the environment file holds an indented
\* PORT line, ensure_env_port appends a second PORT line while
\* read_worktree_port still reads the first, copied one.
C1_Original ==
    \A i \in Listed, j \in Listed :
        i # j /\ Recovered(i) # NoPort => Recovered(i) # Recovered(j)

\* C8 (as stated): a create invocation that adds a worktree uses a branch that
\* did not exist and a directory that did not exist just before.
C8_Original ==
    last.status # "none" /\ last.added => ~last.branch_existed /\ ~last.dir_existed

\* C8 (amended): a create invocation that adds a worktree uses a directory
\* that did not exist just before; a free-form one also uses a branch that did
\* not exist, while an issue-backed one may attach to a branch that is left
\* from an earlier worktree.
C8_FreshDirectory ==
    last.status # "none" /\ last.added =>
        /\ ~last.dir_existed
        /\ last.kind = "context" => ~last.branch_existed

\* an issue-backed create has attached a new worktree to an existing branch
C8_Witness ==
    /\ last.status = "created" /\ last.added
    /\ last.kind = "issue" /\ last.branch_existed /\ ~last.dir_existed

(***************************************************************************)
(* SpecAlloc: allocate_port on drawn inputs.  Two calls are made one after *)
(* the other against the same host; the second may take the first result   *)
(* into its used set.                                                      *)
(***************************************************************************)
Str_a == <<"a">>
Str_b == <<"b">>
Str_c == <<"c">>
AllocBranches == {Str_a, Str_b, Str_c}
AllocBases == {3000}
AllocWindow(base) == base .. (base + MaxOff)

InitAlloc ==
    /\ a_base \in AllocBases
    /\ a_span \in 1..MaxSpan
    /\ a_used \in SUBSET AllocWindow(a_base)
    /\ bound \in SUBSET AllocWindow(a_base)
    /\ a_calls = <<>>
    /\ NoCallYet
    /\ RepoIdle
    /\ d_calls = <<>>
    /\ procs = <<>>

AllocCall(branch, feed) ==
    LET res == allocate_port(branch, a_base, a_used, a_span)
    IN  /\ a_calls' = Append(a_calls,
              [branch |-> branch, used |-> a_used, res |-> res])
        /\ a_used' = IF feed /\ res.exc = "none"
                       THEN a_used \cup {res.value} ELSE a_used
        /\ UNCHANGED <<a_base, a_span, bound, repoVars, deriveVars, callVars, raceVars>>

FirstCall ==
    /\ Len(a_calls) = 0
    /\ \E b \in AllocBranches, feed \in BOOLEAN : AllocCall(b, feed)

SecondCall ==
    /\ Len(a_calls) = 1
    /\ \E b \in AllocBranches : AllocCall(b, FALSE)

NextAlloc == FirstCall \/ SecondCall

SpecAlloc == InitAlloc /\ [][NextAlloc]_vars

(***************************************************************************)
(* Claims about allocate_port, checked under SpecAlloc.                    *)
(***************************************************************************)
CallIds == 1..Len(a_calls)
CallReturned(i) == a_calls[i].res.exc = "none"
CallPort(i) == a_calls[i].res.value
\* start = base_port + (hash mod span), recomputed from the call's branch
CallStart(i) == a_base + HashMod(stable_hash(a_calls[i].branch), a_span)
Occupied(i, p) == p \in a_calls[i].used \/ p \in bound
\* the second call was given the first call's used set plus its result
FedForward ==
    /\ Len(a_calls) = 2
    /\ CallReturned(1)
    /\ a_calls[2].used = a_calls[1].used \cup {CallPort(1)}

\* C2: a returned port is never in the used set of its call; two distinct
\* branches allocated one after the other, the first result fed into the
\* second call's used set, get different ports.
C2_UsedSetRespected ==
    /\ \A i \in CallIds : CallReturned(i) => CallPort(i) \notin a_calls[i].used
    /\ (FedForward /\ CallReturned(2) /\ a_calls[1].branch # a_calls[2].branch)
          => CallPort(1) # CallPort(2)

\* two distinct branches with the same starting port, fed forward, both served
C2_Witness ==
    /\ FedForward /\ CallReturned(2)
    /\ a_calls[1].branch # a_calls[2].branch
    /\ CallStart(1) = CallStart(2)
    /\ CallPort(1) = CallStart(1)

\* C3: a returned port is never bound on the host, also when it is absent
\* from the used set.
C3_LiveSocketsRespected ==
    \A i \in CallIds : CallReturned(i) => CallPort(i) \notin bound

\* the starting port is bound but not recorded, and the call returned a port
C3_Witness ==
    \E i \in CallIds :
        /\ CallReturned(i)
        /\ CallStart(i) \in bound
        /\ CallStart(i) \notin a_calls[i].used

\* C4: the call raises the exhaustion error exactly when every one of the
\* 2*span candidates start .. start+2*span-1 is used or bound; a returned
\* port is always a checked candidate.
C4_ExhaustionExact ==
    \A i \in CallIds :
        LET window == CallStart(i) .. (CallStart(i) + 2 * a_span - 1)
        IN  /\ a_calls[i].res.exc \in {"none", "SystemExit"}
            /\ (a_calls[i].res.exc = "SystemExit")
                  <=> (\A p \in window : Occupied(i, p))
            /\ CallReturned(i)
                  => (CallPort(i) \in window /\ ~Occupied(i, CallPort(i)))

\* span = 1, start and start + 1 both occupied, and the call raised
C4_Witness ==
    \E i \in CallIds :
        /\ a_span = 1
        /\ Occupied(i, CallStart(i)) /\ Occupied(i, CallStart(i) + 1)
        /\ a_calls[i].res.exc = "SystemExit"

C6_FirstAccepted ==
    \A i \in CallIds :
        CallReturned(i) =>
            /\ CallPort(i) >= CallStart(i)
            /\ ~Occupied(i, CallPort(i))
            /\ \A q \in CallStart(i) .. (CallPort(i) - 1) : Occupied(i, q)
            /\ (~Occupied(i, CallStart(i)) => CallPort(i) = CallStart(i))

\* a call that skipped an occupied start and returned a later port
C6_Witness ==
    \E i \in CallIds :
        /\ CallReturned(i)
        /\ Occupied(i, CallStart(i))
        /\ CallPort(i) > CallStart(i)

\* C7 as stated: every returned port lies in [base, base + 2*span - 1].
C7_Original ==
    \A i \in CallIds :
        CallReturned(i) => CallPort(i) \in a_base .. (a_base + 2 * a_span - 1)

\* C7 amended: every returned port lies in [base, base + 3*span - 2]
\* (start <= base + span - 1 and the probe adds at most 2*span - 1).
C7_Range ==
    \A i \in CallIds :
        CallReturned(i) => CallPort(i) \in a_base .. (a_base + 3 * a_span - 2)

\* a call that returned the last port of the amended range
C7_Witness ==
    \E i \in CallIds :
        /\ a_span > 1
        /\ CallReturned(i)
        /\ CallPort(i) = a_base + 3 * a_span - 2

(***************************************************************************)
(* SpecDerive: derive_context_branch on drawn repositories.  Branch refs   *)
(* and worktree directories exist independently of each other, so a ref    *)
(* can linger without its directory and a directory without its ref.       *)
(***************************************************************************)
Ctx_foo == <<"f","o","o">>
Ctx_Foo_bang == <<"F","o","o","!">>
Ctx_blank == <<" "," ">>
DeriveContexts == {Ctx_foo, Ctx_Foo_bang, Ctx_blank}

\* the names work/foo, work/foo-2, work/foo-3, ... written out
FooNames ==
    <<<<"w","o","r","k","/","f","o","o">>,
      <<"w","o","r","k","/","f","o","o","-","2">>,
      <<"w","o","r","k","/","f","o","o","-","3">>,
      <<"w","o","r","k","/","f","o","o","-","4">>,
      <<"w","o","r","k","/","f","o","o","-","5">>,
      <<"w","o","r","k","/","f","o","o","-","6">>,
      <<"w","o","r","k","/","f","o","o","-","7">>>>
\* the names work/work, work/work-2, ... (the fallback slug)
WorkNames ==
    <<<<"w","o","r","k","/","w","o","r","k">>,
      <<"w","o","r","k","/","w","o","r","k","-","2">>,
      <<"w","o","r","k","/","w","o","r","k","-","3">>,
      <<"w","o","r","k","/","w","o","r","k","-","4">>,
      <<"w","o","r","k","/","w","o","r","k","-","5">>,
      <<"w","o","r","k","/","w","o","r","k","-","6">>,
      <<"w","o","r","k","/","w","o","r","k","-","7">>>>
\* the candidate sequence a context is expected to walk
ExpectedNames(context) == IF context = Ctx_blank THEN WorkNames ELSE FooNames

DeriveNames == {FooNames[k] : k \in 1..MaxSuffix} \cup {WorkNames[1]}

InitDerive ==
    /\ refs \in SUBSET DeriveNames
    /\ disk \in SUBSET {WtDir(n) : n \in DeriveNames}
    /\ registry = <<>> /\ wtconfig = <<>> /\ wtcfg = FALSE /\ files = <<>>
    /\ cfgfile = NoFile /\ prs = <<>> /\ remote = <<>> /\ last = NoResult /\ invocations = 0
    /\ d_calls = <<>>
    /\ bound = {}
    /\ a_base = 0 /\ a_span = 1 /\ a_used = {} /\ a_calls = <<>>
    /\ NoCallYet
    /\ procs = <<>>

Derive(context) ==
    /\ Len(d_calls) = 0
    /\ d_calls' = Append(d_calls,
           [context |-> context,
            result |-> derive_context_branch(Repo, context, DefaultPrefix, DefaultWordLimit)])
    /\ UNCHANGED <<repoVars, bound, allocVars, callVars, raceVars>>

NextDerive == \E context \in DeriveContexts : Derive(context)

SpecDerive == InitDerive /\ [][NextDerive]_vars

(***************************************************************************)
(* Claims about derive_context_branch, checked under SpecDerive.           *)
(***************************************************************************)
DeriveIds == 1..Len(d_calls)
NameFree(n) == n \notin refs /\ WtDir(n) \notin disk

\* C9: the returned branch has no branch ref and no worktree directory; a
\* candidate with only one of the two free is never returned.
C9_BothFree ==
    \A i \in DeriveIds :
        /\ d_calls[i].result \notin refs
        /\ WtDir(d_calls[i].result) \notin disk

\* the base name has a lingering ref without directory, the next candidate a
\* lingering directory without ref, and the call returned
C9_Witness ==
    \E i \in DeriveIds :
        LET seq == ExpectedNames(d_calls[i].context)
        IN  /\ seq = FooNames
            /\ seq[1] \in refs /\ WtDir(seq[1]) \notin disk
            /\ seq[2] \notin refs /\ WtDir(seq[2]) \in disk
            /\ d_calls[i].result = seq[3]

\* C10: the result is the first free name of prefix/slug, prefix/slug-2,
\* prefix/slug-3, ...
C10_FirstFreeName ==
    \A i \in DeriveIds :
        LET seq == ExpectedNames(d_calls[i].context)
        IN  \E k \in 1..Len(seq) :
                /\ d_calls[i].result = seq[k]
                /\ NameFree(seq[k])
                /\ \A j \in 1..(k - 1) : ~NameFree(seq[j])

\* branches work/foo and work/foo-2 exist and the call returned work/foo-3
C10_Witness ==
    \E i \in DeriveIds :
        /\ FooNames[1] \in refs /\ FooNames[2] \in refs
        /\ d_calls[i].result = FooNames[3]

(***************************************************************************)
(* SpecSlug: one call of slugify on a text over a small alphabet.          *)
(***************************************************************************)
SlugAlphabet == {"a", "B", "1", "-", " ", "!"}
Texts == UNION {[1..n -> SlugAlphabet] : n \in 0..MaxText}

InitSlug ==
    /\ RepoIdle
    /\ bound = {}
    /\ d_calls = <<>>
    /\ a_base = 0 /\ a_span = 1 /\ a_used = {} /\ a_calls = <<>>
    /\ f_in \in {[fn |-> "slugify", text |-> t] : t \in Texts}
    /\ f_out = NoCall
    /\ procs = <<>>

Slugify ==
    /\ f_in.fn = "slugify" /\ f_out = NoCall
    /\ f_out' = [fn |-> "slugify", value |-> slugify(f_in.text)]
    /\ UNCHANGED <<repoVars, bound, deriveVars, allocVars, f_in, raceVars>>

NextSlug == Slugify

SpecSlug == InitSlug /\ [][NextSlug]_vars

\* a letter or digit, of either case
IsAlnum(c) == Contains(LowerLetters, c) \/ Contains(UpperLetters, c) \/ Contains(DigitChars, c)
\* the letters and digits of a text, in order
AlnumsOf(s) == SelectSeq(s, IsAlnum)
\* the places where a run of other characters starts between two letters or digits
InnerRuns(s) ==
    {i \in 1..Len(s) : /\ IsAlnum(s[i])
                       /\ i < Len(s) /\ ~IsAlnum(s[i + 1])
                       /\ \E j \in (i + 2)..Len(s) : IsAlnum(s[j])}
Hyphens(s) == {i \in 1..Len(s) : s[i] = "-"}

\* C11: slugify never returns the empty string; its result holds only
\* lowercase letters, digits and single hyphens, none leading or trailing;
\* the letters and digits are those of the text, lowercased, every run of
\* other characters between them is one hyphen, and a text without a letter
\* or digit gives "work".
C11_SlugShape ==
    f_out.fn = "slugify" =>
        LET r == f_out.value
            t == f_in.text
        IN  /\ r # <<>>
            /\ \A i \in 1..Len(r) :
                   Contains(LowerLetters, r[i]) \/ Contains(DigitChars, r[i]) \/ r[i] = "-"
            /\ r[1] # "-" /\ r[Len(r)] # "-"
            /\ \A i \in 1..(Len(r) - 1) : ~(r[i] = "-" /\ r[i + 1] = "-")
            /\ AlnumsOf(t) = <<>> => r = Str_work
            /\ AlnumsOf(t) # <<>> =>
                   /\ AlnumsOf(r) = Lower(AlnumsOf(t))
                   /\ Cardinality(Hyphens(r)) = Cardinality(InnerRuns(t))

\* a text with a run of two other characters between letters was slugified
C11_Witness ==
    /\ f_out.fn = "slugify"
    /\ \E i \in 2..(Len(f_in.text) - 2) :
           /\ IsAlnum(f_in.text[i - 1]) /\ ~IsAlnum(f_in.text[i])
           /\ ~IsAlnum(f_in.text[i + 1]) /\ IsAlnum(f_in.text[i + 2])
    /\ Cardinality(Hyphens(f_out.value)) = 1

(***************************************************************************)
(* SpecFind: one call of find_existing_worktree_path.  The listing holds   *)
(* up to MaxListed blocks; a block may lack its branch (a detached         *)
(* worktree) or its path, and its directory may be gone from the disk.     *)
(***************************************************************************)
Str_x == <<"x">>
Str_y == <<"y">>
\* a worktree directory outside the canonical location
Path_other == <<"/","o">>
FindPaths == {WtDir(Str_x), Path_other}
FindEntries == [path : FindPaths \cup {<<>>}, branch : {Str_x, Str_y, <<>>}]
FindListings == UNION {[1..n -> FindEntries] : n \in 0..MaxListed}

InitFind ==
    /\ refs = {} /\ wtconfig = <<>> /\ wtcfg = FALSE /\ files = <<>>
    /\ cfgfile = NoFile /\ prs = <<>> /\ remote = <<>> /\ last = NoResult /\ invocations = 0
    /\ disk \in SUBSET FindPaths
    /\ registry \in FindListings
    /\ bound = {}
    /\ d_calls = <<>>
    /\ a_base = 0 /\ a_span = 1 /\ a_used = {} /\ a_calls = <<>>
    /\ f_in = [fn |-> "find", branch |-> Str_x, desired_path |-> WtDir(Str_x)]
    /\ f_out = NoCall
    /\ procs = <<>>

Find ==
    /\ f_in.fn = "find" /\ f_out = NoCall
    /\ f_out' = [fn |-> "find",
                 value |-> find_existing_worktree_path(Repo, f_in.branch, f_in.desired_path)]
    /\ UNCHANGED <<repoVars, bound, deriveVars, allocVars, f_in, raceVars>>

NextFind == Find

SpecFind == InitFind /\ [][NextFind]_vars

\* every block of the listing has its `worktree` line, as git writes it
GitListed == \A i \in 1..Len(registry) : registry[i].path # <<>>

\* the listed worktrees that answer the call: the directory is on disk and the
\* branch or the path is the one asked for
Answers ==
    {i \in 1..Len(registry) :
        /\ registry[i].path \in disk
        /\ registry[i].path = f_in.desired_path \/ registry[i].branch = f_in.branch}

\* C12: on a listing that git wrote, find_existing_worktree_path returns
\* desired_path when it exists on disk; otherwise the path of a listed
\* worktree with the target branch or path whose directory exists; otherwise
\* nothing.  What it returns exists on disk.
C12_FindResult ==
    f_out.fn = "find" /\ GitListed =>
        /\ f_in.desired_path \in disk => f_out.value = f_in.desired_path
        /\ f_in.desired_path \notin disk /\ Answers # {} =>
               \E i \in Answers : f_out.value = registry[i].path
        /\ f_in.desired_path \notin disk /\ Answers = {} => f_out.value = <<>>
        /\ f_out.value # <<>> => f_out.value \in disk

\* the call passed over a stale entry of the target branch and returned a
\* later worktree of that branch, away from the canonical location
C12_Witness ==
    /\ f_out.fn = "find" /\ GitListed
    /\ f_in.desired_path \notin disk
    /\ Len(registry) = 2
    /\ registry[1].branch = f_in.branch /\ registry[1].path \notin disk
    /\ registry[2].branch = f_in.branch /\ registry[2].path = Path_other
    /\ f_out.value = Path_other

\* the listed worktrees with both a path and a branch that answer the call
WellFormedAnswers ==
    {i \in Answers : registry[i].path # <<>> /\ registry[i].branch # <<>>}

\* C13 (as stated): a block of the listing without a path or without a branch,
\* or an unrecognized line, never hides a well-formed matching entry of the
\* same listing: when desired_path is not on disk and such an entry exists,
\* the path of one is returned.  The code does not keep this: parse_worktrees
\* starts a new entry only at a `worktree` line, so the `branch` line of a
\* block without a path overwrites the branch of the entry before it.
C13_Original ==
    f_out.fn = "find" /\ f_in.desired_path \notin disk /\ WellFormedAnswers # {} =>
        \E i \in WellFormedAnswers : f_out.value = registry[i].path

(***************************************************************************)
(* SpecReadPort: one call of read_worktree_port.  The configuration key    *)
(* and the lines of the environment file are drawn together with what they *)
(* mean: `port` is the port a text denotes, NoPort when it is not an       *)
(* integer of [1, 65535]; `integer` tells whether int() accepts the text.  *)
(***************************************************************************)
ReadValues ==
    { [text |-> <<"3","0","0","1">>, integer |-> TRUE, port |-> 3001],
      [text |-> <<"6","5","5","3","5">>, integer |-> TRUE, port |-> 65535],
      [text |-> <<"a","b","c">>, integer |-> FALSE, port |-> NoPort],
      [text |-> <<"0">>, integer |-> TRUE, port |-> NoPort],
      [text |-> <<"-","1">>, integer |-> TRUE, port |-> NoPort],
      [text |-> <<"6","5","5","3","6">>, integer |-> TRUE, port |-> NoPort] }
\* the key is unset
NoValue == [text |-> <<>>, integer |-> FALSE, port |-> NoPort]

\* a PORT line with the value, plain or indented, and a line of another key
ReadLines ==
    {[text |-> Str_PORT_eq \o v.text, key |-> TRUE, integer |-> v.integer, port |-> v.port] :
        v \in {w \in ReadValues : w.port \in {3001, NoPort} /\ Len(w.text) <= 3}
              \cup {[text |-> <<"3","0","0","2">>, integer |-> TRUE, port |-> 3002]}}
    \cup {[text |-> <<" ">> \o Str_PORT_eq \o <<"3","0","0","3">>,
           key |-> TRUE, integer |-> TRUE, port |-> 3003],
          [text |-> Line_other, key |-> FALSE, integer |-> FALSE, port |-> NoPort]}
ReadEnvs == UNION {[1..n -> ReadLines] : n \in 0..MaxEnvLines}
\* the environment file does not exist
NoEnv == <<[text |-> NoFile]>>

ReadPath == WtDir(Str_x)

InitReadPort ==
    /\ f_in \in [fn : {"read_worktree_port"}, path : {ReadPath}, env_key : {Str_env_name},
                 cfg : ReadValues \cup {NoValue}, env : ReadEnvs \cup {NoEnv}]
    /\ f_out = NoCall
    /\ refs = {} /\ registry = <<>> /\ cfgfile = NoFile /\ prs = <<>> /\ remote = <<>>
    /\ last = NoResult /\ invocations = 0
    /\ disk = {ReadPath}
    /\ wtcfg \in BOOLEAN
    /\ wtconfig = IF f_in.cfg = NoValue THEN <<>>
                  ELSE [q \in {ReadPath} |-> f_in.cfg.text]
    /\ files = IF f_in.env = NoEnv THEN <<>>
               ELSE [q \in {FilePath(ReadPath, Str_env_name)} |->
                        [i \in 1..Len(f_in.env) |-> f_in.env[i].text]]
    /\ bound = {}
    /\ d_calls = <<>>
    /\ a_base = 0 /\ a_span = 1 /\ a_used = {} /\ a_calls = <<>>
    /\ procs = <<>>

ReadPort ==
    /\ f_in.fn = "read_worktree_port" /\ f_out = NoCall
    /\ f_out' = [fn |-> "read_worktree_port",
                 value |-> read_worktree_port(Repo, f_in.path, f_in.env_key)]
    /\ UNCHANGED <<repoVars, bound, deriveVars, allocVars, f_in, raceVars>>

NextReadPort == ReadPort

SpecReadPort == InitReadPort /\ [][NextReadPort]_vars

\* the port the configuration key holds: the key can be read and its value
\* denotes a port
KeyPort == IF wtcfg THEN f_in.cfg.port ELSE NoPort
\* the ports the PORT lines of the environment file denote
EnvLinePorts ==
    IF f_in.env = NoEnv THEN {}
    ELSE {f_in.env[i].port : i \in {j \in 1..Len(f_in.env) : f_in.env[j].key}} \ {NoPort}

\* C14: when the configuration key holds a valid port, read_worktree_port
\* returns it whatever the environment file says; a port of the environment
\* file is returned only when the key is missing or invalid.
C14_ConfigFirst ==
    f_out.fn = "read_worktree_port" =>
        /\ KeyPort # NoPort => f_out.value = KeyPort
        /\ KeyPort = NoPort => f_out.value \in EnvLinePorts \cup {NoPort}

\* the key held a valid port and the environment file another one
C14_Witness ==
    /\ f_out.fn = "read_worktree_port"
    /\ KeyPort = 3001 /\ 3002 \in EnvLinePorts
    /\ f_out.value = 3001

\* C15: read_worktree_port returns no port or an integer of [1, 65535]; when
\* neither the configuration key nor a PORT line of the environment file
\* denotes such an integer (the text is not an integer, or is out of range),
\* it returns no port.
C15_PortOrNone ==
    f_out.fn = "read_worktree_port" =>
        /\ f_out.value = NoPort \/ (1 <= f_out.value /\ f_out.value <= 65535)
        /\ KeyPort = NoPort /\ EnvLinePorts = {} => f_out.value = NoPort

\* the key held a text that is not an integer and the environment file a PORT
\* line with an integer out of range
C15_Witness ==
    /\ f_out.fn = "read_worktree_port"
    /\ wtcfg /\ f_in.cfg # NoValue /\ ~f_in.cfg.integer
    /\ f_in.env # NoEnv
    /\ \E i \in 1..Len(f_in.env) :
           f_in.env[i].key /\ f_in.env[i].integer /\ f_in.env[i].port = NoPort
    /\ f_out.value = NoPort

(***************************************************************************)
(* SpecEnsure: one call of ensure_env_port on an environment file that     *)
(* does not exist or holds up to MaxEnvLines lines.                        *)
(***************************************************************************)
Line_port_abc == <<"P","O","R","T","=","a","b","c">>
Line_second == <<"B","=","2">>
EnsureInputLines ==
    {Line_port_3000, Line_port_abc, Line_indented_port, Line_other, Line_second}
EnsureInputs == UNION {[1..n -> EnsureInputLines] : n \in 0..MaxEnvLines} \cup {NoFile}
EnsurePorts == {1, 3055, 65535}
EnsurePath == FilePath(WtDir(Str_x), Str_env_name)

InitEnsure ==
    /\ f_in \in [fn : {"ensure_env_port"}, env_file : {EnsurePath},
                 lines : EnsureInputs, port : EnsurePorts]
    /\ f_out = NoCall
    /\ refs = {} /\ registry = <<>> /\ cfgfile = NoFile /\ prs = <<>> /\ remote = <<>>
    /\ last = NoResult /\ invocations = 0
    /\ disk = {WtDir(Str_x)} /\ wtcfg = FALSE /\ wtconfig = <<>>
    /\ files = IF f_in.lines = NoFile THEN <<>>
               ELSE [q \in {EnsurePath} |-> f_in.lines]
    /\ bound = {}
    /\ d_calls = <<>>
    /\ a_base = 0 /\ a_span = 1 /\ a_used = {} /\ a_calls = <<>>
    /\ procs = <<>>

Ensure ==
    /\ f_in.fn = "ensure_env_port" /\ f_out = NoCall
    /\ files' = ensure_env_port(Repo, f_in.env_file, f_in.port).files
    /\ f_out' = [fn |-> "ensure_env_port"]
    /\ UNCHANGED <<remote, refs, disk, registry, wtconfig, wtcfg, cfgfile, prs, last,
                   invocations, bound, deriveVars, allocVars, f_in, raceVars>>

NextEnsure == Ensure

SpecEnsure == InitEnsure /\ [][NextEnsure]_vars

\* a line that starts with PORT=
IsPortLine(l) == Len(l) >= 5 /\ SubSeq(l, 1, 5) = <<"P","O","R","T","=">>
NotPortLine(l) == ~IsPortLine(l)
\* the lines of the file before and after the call
LinesBefore == IF f_in.lines = NoFile THEN <<>> ELSE f_in.lines
LinesAfter == files[f_in.env_file]
\* PORT=<port>
PortLine == <<"P","O","R","T","=">> \o IntToStr(f_in.port)

\* C16 (as stated): after ensure_env_port the file holds exactly one line that
\* starts with PORT=, and it is PORT=<port>.  The code does not keep this: it
\* rewrites every PORT= line in place, so a file that held several still
\* holds as many.
C16_Original ==
    f_out.fn = "ensure_env_port" =>
        /\ Len(SelectSeq(LinesAfter, IsPortLine)) = 1
        /\ SelectSeq(LinesAfter, IsPortLine) = <<PortLine>>

\* C17: ensure_env_port leaves the lines that do not start with PORT=
\* unchanged and in their order; a line that starts with PORT= is rewritten
\* where it stands, and when there is none PORT=<port> is appended after all
\* lines.
C17_OthersKept ==
    f_out.fn = "ensure_env_port" =>
        /\ SelectSeq(LinesAfter, NotPortLine) = SelectSeq(LinesBefore, NotPortLine)
        /\ SelectSeq(LinesBefore, IsPortLine) # <<>> =>
               /\ Len(LinesAfter) = Len(LinesBefore)
               /\ \A i \in 1..Len(LinesBefore) :
                      IF IsPortLine(LinesBefore[i]) THEN LinesAfter[i] = PortLine
                      ELSE LinesAfter[i] = LinesBefore[i]
        /\ SelectSeq(LinesBefore, IsPortLine) = <<>> =>
               LinesAfter = Append(LinesBefore, PortLine)

\* a PORT= line standing before another line was rewritten where it stood
C17_Witness ==
    /\ f_out.fn = "ensure_env_port"
    /\ LinesBefore = <<Line_port_3000, Line_other>>
    /\ LinesAfter = <<PortLine, Line_other>>

(***************************************************************************)
(* SpecConfig: create invocations (one issue, a batch of two, a context)   *)
(* in repositories whose .dux.yml is missing, has no or an empty port key, *)
(* a port that is not an integer, or a base port; the ports of the probe   *)
(* window are all free or all taken by other processes.                    *)
(***************************************************************************)
Cfg_port_empty == <<"p","o","r","t",":">>
Cfg_port_abc == <<"p","o","r","t",":"," ","a","b","c">>
Cfg_comment == <<"#"," ","d","u","x">>
\* .dux.yml without a port: no port key, or an empty one
PortlessConfigs == { <<Cfg_comment, Cfg_env>>, <<Cfg_port_empty, Cfg_env>> }
\* a .dux.yml that parse_simple_yaml refuses, or none
BrokenConfigs == { NoFile, <<Cfg_port_abc, Cfg_env>> }
ConfigFiles == PortlessConfigs \cup BrokenConfigs \cup CfgFiles

Issue_3 == [number |-> 3, title |-> <<"x">>]
Batch_2_3 == <<Issue_2, Issue_3>>
\* every port allocate_port can probe from base 3000 with the default span
ProbeWindow == 3000 .. (3000 + 3 * DefaultSpan - 2)

\* the invocations of SpecConfig: every command succeeds, with and without
\* --no-bootstrap, or git worktree add fails
ConfigInvocations ==
    { [no_bootstrap |-> FALSE, io |-> AllOk],
      [no_bootstrap |-> TRUE, io |-> AllOk],
      [no_bootstrap |-> FALSE, io |-> [AllOk EXCEPT !.git_ok = FALSE]] }

InitConfig ==
    /\ refs = {Str_main}
    /\ disk = {RootPath}
    /\ registry = <<[path |-> RootPath, branch |-> Str_main]>>
    /\ wtconfig = <<>>
    /\ wtcfg = TRUE
    /\ files = [f \in {RootEnv} |-> <<Line_port_3000, Line_other>>]
    /\ cfgfile \in ConfigFiles
    /\ prs = <<>> /\ remote = <<>>
    /\ last = NoResult
    /\ invocations = 0
    /\ bound \in {{}, ProbeWindow}
    /\ d_calls = <<>>
    /\ a_base = 0 /\ a_span = 1 /\ a_used = {} /\ a_calls = <<>>
    /\ NoCallYet
    /\ procs = <<>>

\* dux create --issue <n>
ConfigCreateIssue ==
    \E issue \in {Issue_2, Issue_3}, inv \in ConfigInvocations :
        Create([issues |-> <<issue>>, context |-> <<>>, no_bootstrap |-> inv.no_bootstrap],
               inv.io)

\* dux create --issue 2,3
ConfigCreateBatch ==
    \E inv \in ConfigInvocations :
        Create([issues |-> Batch_2_3, context |-> <<>>, no_bootstrap |-> inv.no_bootstrap],
               inv.io)

\* dux create <context>
ConfigCreateContext ==
    \E inv \in ConfigInvocations :
        Create([issues |-> <<>>, context |-> Ctx_aa, no_bootstrap |-> inv.no_bootstrap],
               inv.io)

NextConfig == ConfigCreateIssue \/ ConfigCreateBatch \/ ConfigCreateContext

SpecConfig == InitConfig /\ [][NextConfig]_vars

\* the per-worktree results of the last create invocation
LastResults ==
    IF last.status = "none" THEN {}
    ELSE IF last.kind = "batch" THEN {last.results[i] : i \in 1..Len(last.results)}
    ELSE {last}

\* C18: with no port key in .dux.yml, or an empty one, create allocates
\* nothing: no result carries a port, no worktree has issuewt.port set, every
\* copied environment file is the copy of the source, unchanged, and a create
\* that added its worktree completes even when every port of the probe window
\* is taken.
C18_NoAllocation ==
    cfgfile \in PortlessConfigs =>
        /\ \A r \in LastResults : r.port = NoPort /\ (r.added => r.status = "created")
        /\ last.status # "abort"
        /\ wtconfig = <<>>
        /\ \A f \in DOMAIN files : files[f] = files[RootEnv]

\* a worktree was created and bootstrapped without a port key while every
\* port of the window was taken
C18_Witness ==
    /\ cfgfile \in PortlessConfigs
    /\ bound = ProbeWindow
    /\ last.status = "created"
    /\ FilePath(last.dir_path, Str_env_name) \in DOMAIN files
    /\ last.port = NoPort

\* C19 (as stated): in a repository whose .dux.yml is missing or has a port
\* that is not an integer, a create invocation that ends with the
\* configuration error has created no branch, no worktree and no pull
\* request.  The code reads .dux.yml only after git_worktree_add (and, for an
\* issue, after the pull request), so all of them exist when it ends.
C19_Original ==
    (cfgfile \in BrokenConfigs /\ last.status = "abort") =>
        /\ refs = {Str_main}
        /\ disk = {RootPath}
        /\ Len(registry) = 1
        /\ prs = <<>>

\* every create that reaches the allocation step fails there: .dux.yml is
\* missing or broken, or it has a base port and every port of the probe
\* window is taken
AllocationFails ==
    cfgfile \in BrokenConfigs \/ (cfgfile \in CfgFiles /\ bound = ProbeWindow)

Branch_2 == <<"i","s","s","u","e","/","2","-","a","-","b","-","c","-","d","-","e">>
Branch_3 == <<"i","s","s","u","e","/","3","-","x">>
\* the branch of the k-th issue of the batch
BatchBranch(k) == IF k = 1 THEN Branch_2 ELSE Branch_3

\* one create invocation, seen from outside, when the allocation step fails
PropagatesStep ==
    (AllocationFails /\ invocations' = invocations + 1) =>
        IF last'.kind = "batch"
        THEN /\ \A i \in 1..Len(last'.results) : ~last'.results[i].added
             /\ last'.status = "summary" => refs' = refs
             /\ last'.status = "abort" =>
                    LET k == Len(last'.results) + 1
                    IN  /\ k <= Len(last'.issues)
                        /\ refs' = refs \cup {BatchBranch(k)}
                        /\ BatchBranch(k) \notin refs
                        /\ DOMAIN prs' \subseteq DOMAIN prs \cup {BatchBranch(k)}
                        /\ Len(registry') = Len(registry) + 1
        ELSE /\ last'.status # "created"
             /\ last'.added <=> last'.status = "abort"
             /\ last'.status = "error" => refs' = refs

\* C20: a configuration failure or an exhausted probe window met inside
\* process_single_issue or create_context_worktree never comes back as an
\* `error` (or `created`) result: the invocation aborts; in a batch the
\* issues after the failing one are not processed (nothing of theirs is
\* created) and the summary is not reached.
C20_Propagates == [][PropagatesStep]_vars

\* with a base port and every port of the window taken, a batch aborted at
\* its first issue: nothing was appended to the results and the second
\* issue has no branch
C20_Witness ==
    /\ cfgfile \in CfgFiles /\ bound = ProbeWindow
    /\ last.status = "abort" /\ last.kind = "batch"
    /\ last.results = <<>>
    /\ Branch_2 \in refs /\ Branch_3 \notin refs

(***************************************************************************)
(* SpecEffort: create invocations in which the best-effort steps fail in   *)
(* every combination: the push, the empty commit, and (wtcfg FALSE: the    *)
(* worktreeConfig extension is off) git config --worktree.  Everything     *)
(* else succeeds.                                                          *)
(***************************************************************************)
EffortIo ==
    {[AllOk EXCEPT !.push_ok = p, !.commit_ok = c] : p \in BOOLEAN, c \in BOOLEAN}

InitEffort ==
    /\ refs = {Str_main}
    /\ disk = {RootPath}
    /\ registry = <<[path |-> RootPath, branch |-> Str_main]>>
    /\ wtconfig = <<>>
    /\ wtcfg \in BOOLEAN
    /\ files \in EnvFiles
    /\ cfgfile \in CfgFiles
    /\ prs = <<>> /\ remote = <<>>
    /\ last = NoResult
    /\ invocations = 0
    /\ bound = {}
    /\ d_calls = <<>>
    /\ a_base = 0 /\ a_span = 1 /\ a_used = {} /\ a_calls = <<>>
    /\ NoCallYet
    /\ procs = <<>>

\* dux create --issue <n>
EffortCreateIssue ==
    \E issue \in {Issue_2, Issue_3}, io \in EffortIo, nb \in BOOLEAN :
        Create([issues |-> <<issue>>, context |-> <<>>, no_bootstrap |-> nb], io)

\* dux create <context>
EffortCreateContext ==
    \E io \in EffortIo, nb \in BOOLEAN :
        Create([issues |-> <<>>, context |-> Ctx_aa, no_bootstrap |-> nb], io)

NextEffort == EffortCreateIssue \/ EffortCreateContext

SpecEffort == InitEffort /\ [][NextEffort]_vars

\* the worktree of the last result is there: its directory, its registration
\* and its branch
LastWorktreeExists ==
    /\ last.dir_path \in disk
    /\ last.branch \in refs
    /\ \E i \in 1..Len(registry) :
           registry[i].path = last.dir_path /\ registry[i].branch = last.branch

\* C21: whichever of the best-effort steps fail (the push, the empty commit,
\* persisting the port), a create invocation in which everything else
\* succeeds ends `created` (or `exists`), with a port, and its worktree
\* exists.
C21_BestEffort ==
    last.status # "none" =>
        /\ last.status \in {"created", "exists"}
        /\ LastWorktreeExists
        /\ last.status = "created" => ValidPort(last.port)

\* a worktree was created although the push failed and the port could not be
\* persisted
C21_Witness ==
    /\ last.status = "created"
    /\ last.branch \notin DOMAIN remote
    /\ last.dir_path \notin DOMAIN wtconfig
    /\ LastWorktreeExists

\* the worktree a create made for issue 2 is still there: registered on the
\* issue's branch, its directory on disk
IssueWorktreeExists ==
    \E i \in 2..Len(registry) :
        registry[i].branch = Branch_2 /\ registry[i].path \in disk

\* process_single_issue for issue 2 in the repository as it is
AgainIssue(nb) ==
    process_single_issue(Issue_2, Repo, Str_main,
        [issues |-> <<Issue_2>>, context |-> <<>>, no_bootstrap |-> nb], AllOk)

\* C22: while the worktree of an issue exists, process_single_issue for the
\* same issue answers `exists` with that worktree's path and branch and no
\* port, and leaves the repository as it was: no branch, worktree, pull
\* request, file or recorded port is added or changed.
C22_Idempotent ==
    IssueWorktreeExists =>
        \A nb \in BOOLEAN :
            /\ AgainIssue(nb).result.status = "exists"
            /\ AgainIssue(nb).result.branch = Branch_2
            /\ AgainIssue(nb).result.dir_path = WtDir(Branch_2)
            /\ AgainIssue(nb).result.port = NoPort
            /\ AgainIssue(nb).root = Repo

\* a second create for issue 2 ran while its worktree existed
C22_Witness ==
    /\ invocations = 2
    /\ IssueWorktreeExists
    /\ last.kind = "issue" /\ last.status = "exists"
    /\ last.dir_path = WtDir(Branch_2)

(***************************************************************************)
(* SpecLegacy: issue 2 ("a b c d e f", six words) in repositories that may *)
(* hold a worktree under the legacy name, built from the whole title, and  *)
(* one under the current name, built from its first five words.            *)
(***************************************************************************)
Branch_2_legacy ==
    <<"i","s","s","u","e","/","2","-","a","-","b","-","c","-","d","-","e","-","f">>

\* the linked worktrees the repository starts with
LegacyStarts == SUBSET {Branch_2, Branch_2_legacy, Branch_3}

\* the registry of a repository with worktrees for the branches of bs, in the
\* order of the sequence `order`
RECURSIVE RegistryOf(_, _)
RegistryOf(order, bs) ==
    IF order = <<>> THEN <<>>
    ELSE (IF Head(order) \in bs
          THEN <<[path |-> WtDir(Head(order)), branch |-> Head(order)]>>
          ELSE <<>>) \o RegistryOf(Tail(order), bs)

InitLegacy ==
    \E bs \in LegacyStarts :
        /\ refs = {Str_main} \cup bs
        /\ disk = {RootPath} \cup {WtDir(b) : b \in bs}
        /\ registry = <<[path |-> RootPath, branch |-> Str_main]>>
                          \o RegistryOf(<<Branch_2_legacy, Branch_2, Branch_3>>, bs)
        /\ wtconfig = <<>>
        /\ wtcfg = TRUE
        /\ files = [f \in {RootEnv} |-> <<Line_port_3000, Line_other>>]
        /\ cfgfile \in CfgFiles
        /\ prs = <<>> /\ remote = <<>>
        /\ last = NoResult
        /\ invocations = 0
        /\ bound = {}
        /\ d_calls = <<>>
        /\ a_base = 0 /\ a_span = 1 /\ a_used = {} /\ a_calls = <<>>
        /\ NoCallYet
        /\ procs = <<>>

\* dux create --issue <n>
LegacyCreateIssue ==
    \E issue \in {Issue_2, Issue_3}, nb \in BOOLEAN :
        Create([issues |-> <<issue>>, context |-> <<>>, no_bootstrap |-> nb], AllOk)

\* the user deletes the directory of a linked worktree by hand
LegacyRemoveDir == ManualRemoveDir

NextLegacy == LegacyCreateIssue \/ LegacyRemoveDir

SpecLegacy == InitLegacy /\ [][NextLegacy]_vars

\* a worktree exists for the branch: its directory under .wt/, or a
\* registered worktree on the branch whose directory exists
WorktreeFor(b) ==
    \/ WtDir(b) \in disk
    \/ \E i \in 1..Len(registry) : registry[i].branch = b /\ registry[i].path \in disk

\* C23: the branch of an issue is issue/<n>-<slug of the first five words of
\* the title>.  While a worktree exists for it, process_single_issue answers
\* `exists` with it, whatever exists under the legacy name (the slug of the
\* whole title); when none exists for it and one exists under the legacy
\* name, the answer is `exists` with the legacy branch and path and nothing
\* is created; when neither exists the five-word name is the one used.
C23_LegacyLookup ==
    \A nb \in BOOLEAN :
        /\ WorktreeFor(Branch_2) =>
               /\ AgainIssue(nb).result.status = "exists"
               /\ AgainIssue(nb).result.branch = Branch_2
               /\ AgainIssue(nb).root = Repo
        /\ (~WorktreeFor(Branch_2) /\ WorktreeFor(Branch_2_legacy)) =>
               /\ AgainIssue(nb).result.status = "exists"
               /\ AgainIssue(nb).result.branch = Branch_2_legacy
               /\ AgainIssue(nb).result.dir_path = WtDir(Branch_2_legacy)
               /\ AgainIssue(nb).root = Repo
        /\ (~WorktreeFor(Branch_2) /\ ~WorktreeFor(Branch_2_legacy)) =>
               /\ AgainIssue(nb).result.status \in {"created", "error"}
               /\ AgainIssue(nb).result.branch = Branch_2
               /\ AgainIssue(nb).result.dir_path = WtDir(Branch_2)

\* a create for issue 2 answered with the legacy worktree, none existing
\* under the five-word name
C23_Witness ==
    /\ last.status = "exists" /\ last.kind = "issue"
    /\ last.branch = Branch_2_legacy
    /\ last.dir_path = WtDir(Branch_2_legacy)
    /\ ~WorktreeFor(Branch_2)
    /\ Branch_2 \notin refs

(***************************************************************************)
(* SpecRace: two dux create <context> processes in one repository, each    *)
(* taking the steps of create_context_worktree one at a time: add the      *)
(* worktree, read used_ports, probe (allocate_port), persist the port,     *)
(* bootstrap.  The contexts "aa" and "df" give branches whose hashes agree *)
(* modulo the default span.                                                *)
(***************************************************************************)
RaceProcs == {1, 2}
RaceContext(p) == IF p = 1 THEN Ctx_aa ELSE Ctx_df

InitRace ==
    /\ refs = {Str_main}
    /\ disk = {RootPath}
    /\ registry = <<[path |-> RootPath, branch |-> Str_main]>>
    /\ wtconfig = <<>>
    /\ wtcfg \in BOOLEAN
    /\ files \in EnvFiles
    /\ cfgfile \in CfgFiles
    /\ prs = <<>> /\ remote = <<>>
    /\ last = NoResult
    /\ invocations = 0
    /\ bound = {}
    /\ d_calls = <<>>
    /\ a_base = 0 /\ a_span = 1 /\ a_used = {} /\ a_calls = <<>>
    /\ NoCallYet
    /\ procs = [p \in RaceProcs |->
                   [pc |-> "start", branch |-> <<>>, dir_path |-> <<>>,
                    used |-> {}, port |-> NoPort]]

\* process p moves on with the repository `root`
RaceBecomes(root, p, rec) ==
    /\ refs' = root.refs
    /\ disk' = root.disk
    /\ registry' = root.worktrees
    /\ wtconfig' = root.wtconfig
    /\ files' = root.files
    /\ prs' = root.prs /\ remote' = root.remote
    /\ procs' = [procs EXCEPT ![p] = rec]
    /\ UNCHANGED <<wtcfg, cfgfile, last, invocations, bound, deriveVars, allocVars, callVars>>

\* derive_context_branch ... empty_commit_if_needed
RaceAdd(p) ==
    /\ procs[p].pc = "start"
    /\ LET branch == derive_context_branch(Repo, RaceContext(p), DefaultPrefix, DefaultWordLimit)
           dir_path == worktree_dir(Repo, branch)
           add == git_worktree_add(Repo, branch, dir_path, Str_main, TRUE)
       IN  /\ find_existing_worktree_path(Repo, branch, dir_path) = <<>>
           /\ add.exc = "none"
           /\ RaceBecomes(
                  empty_commit_if_needed(
                      push_set_upstream(add.root, dir_path, branch, TRUE),
                      dir_path, branch, TRUE),
                  p, [procs[p] EXCEPT !.pc = "added", !.branch = branch,
                                      !.dir_path = dir_path])

\* cfg = parse_simple_yaml(...); used = used_ports(root, env_key)
RaceSnapshot(p) ==
    /\ procs[p].pc = "added"
    /\ RaceBecomes(Repo, p,
           [procs[p] EXCEPT !.pc = "snapshot",
                            !.used = used_ports(Repo, Get(parse_simple_yaml(Repo).value, Key_env))])

\* assigned_port = allocate_port(branch, base_port, used)
RaceProbe(p) ==
    /\ procs[p].pc = "snapshot"
    /\ LET alloc == allocate_port(procs[p].branch,
                        ParseInt(Get(parse_simple_yaml(Repo).value, Key_port)).value,
                        procs[p].used, DefaultSpan)
       IN  /\ alloc.exc = "none"
           /\ RaceBecomes(Repo, p, [procs[p] EXCEPT !.pc = "probed", !.port = alloc.value])

\* set_worktree_port(dir_path, assigned_port)
RacePersist(p) ==
    /\ procs[p].pc = "probed"
    /\ RaceBecomes(set_worktree_port(Repo, procs[p].dir_path, procs[p].port), p,
                   [procs[p] EXCEPT !.pc = "persisted"])

\* bootstrap_worktree(dir_path, root, assigned_port) and the return
RaceBootstrap(p) ==
    /\ procs[p].pc = "persisted"
    /\ RaceBecomes(bootstrap_worktree(Repo, procs[p].dir_path, procs[p].port, TRUE).root, p,
                   [procs[p] EXCEPT !.pc = "done"])

NextRace ==
    \E p \in RaceProcs :
        RaceAdd(p) \/ RaceSnapshot(p) \/ RaceProbe(p) \/ RacePersist(p) \/ RaceBootstrap(p)

SpecRace == InitRace /\ [][NextRace]_vars

\* both processes have finished
RaceDone == \A p \in RaceProcs : procs[p].pc = "done"
\* the snapshot of neither process held the port the other one chose
RaceBlind == procs[1].port \notin procs[2].used /\ procs[2].port \notin procs[1].used
\* the port recorded for the worktree of process p
RaceRecorded(p) == read_worktree_port(Repo, procs[p].dir_path, EnvKey)

\* C24: two concurrent creates for distinct branches end with the same port
\* whenever each took its used-ports snapshot before the other's port was
\* recorded: both were assigned the same port and both worktrees have it
\* recorded.  (One after the other, the second is assigned another port.)
C24_SamePort ==
    RaceDone =>
        /\ procs[1].branch # procs[2].branch
        /\ RaceBlind =>
               /\ procs[1].port = procs[2].port
               /\ RaceRecorded(1) = RaceRecorded(2)
        /\ ~RaceBlind => procs[1].port # procs[2].port

\* both processes finished after snapshots that saw no port of the other,
\* and the two worktrees have the same port recorded in their configuration
C24_Witness ==
    /\ RaceDone /\ RaceBlind
    /\ procs[1].branch # procs[2].branch
    /\ procs[1].port = procs[2].port /\ ValidPort(procs[1].port)
    /\ wtcfg
    /\ RaceRecorded(1) = procs[1].port /\ RaceRecorded(2) = procs[1].port

Branch_aa == <<"w","o","r","k","/","a","a">>

\* the worktree a create made from the context "aa" is still there
ContextWorktreeExists ==
    \E i \in 2..Len(registry) :
        registry[i].branch = Branch_aa /\ registry[i].path \in disk

\* create_context_worktree for the context "aa" in the repository as it is
AgainContext ==
    create_context_worktree(Ctx_aa, Repo, Str_main,
        [issues |-> <<>>, context |-> Ctx_aa, no_bootstrap |-> FALSE], AllOk)

\* C25 (as stated): while the worktree created from a context exists,
\* create_context_worktree with the same context answers `exists` with that
\* worktree's path and creates no branch and no worktree.  The code never
\* does: derive_context_branch skips every name whose branch or directory
\* exists, so the second call gets the next free name and creates it.
C25_Original ==
    ContextWorktreeExists =>
        /\ AgainContext.result.status = "exists"
        /\ AgainContext.result.dir_path = WtDir(Branch_aa)
        /\ AgainContext.root.refs = refs
        /\ AgainContext.root.worktrees = registry

\* C26 (as stated): after ensure_env_port(env_file, p) the environment-file
\* step of read_worktree_port on that worktree returns p.  The code does not
\* keep this: ensure_env_port recognises a PORT line by raw.startswith and
\* read_worktree_port by line.strip().startswith, so an indented PORT line
\* is left alone by the first and read by the second.
C26_Original ==
    f_out.fn = "ensure_env_port" =>
        EnvFilePort(Repo, WtDir(Str_x), Str_env_name) = f_in.port

(***************************************************************************)
(* SpecBase: allocate_port called as the create functions call it, with    *)
(* the base port read from the port value of .dux.yml.                     *)
(***************************************************************************)
\* port values of .dux.yml: common, zero, negative, near and past 65535, and
\* one that is not an integer
BaseTexts ==
    { <<"3","0","0","0">>, <<"0">>, <<"-","5","5">>, <<"-","9","9","9","9">>,
      <<"6","5","5","0","0">>, <<"6","4","5","3","6">>, <<"7","0","0","0","0">>,
      <<"a","b","c">> }
BaseBranches == {Branch_aa, Branch_3}
\* the used set: empty, or the first one or two ports of the probe
BaseUsedCounts == 0..2

InitBase ==
    /\ f_in \in [fn : {"allocate_port"}, text : BaseTexts, branch : BaseBranches,
                 taken : BaseUsedCounts, listening : BOOLEAN]
    /\ f_out = NoCall
    /\ refs = {} /\ disk = {} /\ registry = <<>> /\ wtconfig = <<>>
    /\ wtcfg = FALSE /\ files = <<>> /\ prs = <<>> /\ remote = <<>>
    /\ cfgfile = << <<"p","o","r","t",":"," ">> \o f_in.text, Cfg_env >>
    /\ last = NoResult /\ invocations = 0
    /\ bound = IF f_in.listening THEN {0, 3055, 65535} ELSE {}
    /\ d_calls = <<>>
    /\ a_base = 0 /\ a_span = 1 /\ a_used = {} /\ a_calls = <<>>
    /\ procs = <<>>

\* cfg = parse_simple_yaml(...); base_port = int(cfg["port"]);
\* allocate_port(branch, base_port, used)
BaseAllocate ==
    /\ f_in.fn = "allocate_port" /\ f_out = NoCall
    /\ LET parsed == parse_simple_yaml(Repo)
       IN  f_out' =
               IF parsed.exc # "none"
               THEN [fn |-> "parse_simple_yaml", exc |-> parsed.exc, value |-> 0, base |-> 0]
               ELSE LET base_port == ParseInt(Get(parsed.value, Key_port)).value
                        start == AllocStart(f_in.branch, base_port, DefaultSpan)
                        used == {start + k : k \in 0..(f_in.taken - 1)}
                        res == allocate_port(f_in.branch, base_port, used, DefaultSpan)
                    IN  [fn |-> "allocate_port", exc |-> res.exc, value |-> res.value,
                         base |-> base_port]
    /\ UNCHANGED <<repoVars, bound, deriveVars, allocVars, f_in, raceVars>>

NextBase == BaseAllocate

SpecBase == InitBase /\ [][NextBase]_vars

\* C27 (as stated): for every base port the configuration parser accepts,
\* allocate_port returns a port of [1, 65535] or raises the exhaustion error
\* (SystemExit).  The code does neither for bases near or outside the port
\* range: the socket probe raises OverflowError for a candidate outside
\* 0..65535, and the candidate 0 is returned when nothing listens on it.
C27_Original ==
    f_out.fn = "allocate_port" =>
        \/ f_out.exc = "none" /\ ValidPort(f_out.value)
        \/ f_out.exc = "SystemExit"

(***************************************************************************)
(* The text ensure_env_port writes, in the package (config.py) and in the  *)
(* standalone script (src/dux.py): the lines joined by, and ended with, a  *)
(* separator.                                                              *)
(***************************************************************************)
RECURSIVE JoinLines(_, _)
\* sep.join(lines)
JoinLines(lines, sep) ==
    IF lines = <<>> THEN <<>>
    ELSE IF Len(lines) = 1 THEN lines[1]
    ELSE lines[1] \o sep \o JoinLines(Tail(lines), sep)

\* "\n" in config.py: the newline character
Sep_newline == <<"\n">>
\* "\\n" in src/dux.py: a backslash and the letter n
Sep_backslash_n == <<"\\", "n">>

\* config.py: env_file.write_text("\n".join(lines) + "\n")
ensure_env_port_text(old, port) ==
    JoinLines(EnsureLines(old, port), Sep_newline) \o Sep_newline

\* src/dux.py: the loop of ensure_env_port over the lines of the file
dux_EnsureLines(old, port) ==
    LET src == IF old = NoFile THEN <<>> ELSE old
        lines == [i \in 1..Len(src) |->
                     IF StartsWith(src[i], Str_PORT_eq)
                     THEN Str_PORT_eq \o IntToStr(port) ELSE src[i]]
        found == \E i \in 1..Len(src) : StartsWith(src[i], Str_PORT_eq)
    IN  IF found THEN lines ELSE Append(lines, Str_PORT_eq \o IntToStr(port))

\* src/dux.py: env_file.write_text("\\n".join(lines) + "\\n")
dux_ensure_env_port_text(old, port) ==
    JoinLines(dux_EnsureLines(old, port), Sep_backslash_n) \o Sep_backslash_n

\* C28 (as stated): for every prior content and port, ensure_env_port of
\* src/dux.py and of src/dux/config.py leave the file with the same text.
\* They do not: the script joins and ends the lines with a backslash and an
\* n instead of a newline.
C28_Original ==
    f_out.fn = "ensure_env_port" =>
        dux_ensure_env_port_text(f_in.lines, f_in.port)
            = ensure_env_port_text(f_in.lines, f_in.port)


(***************************************************************************)
(* Termination of the suffix probe, checked under SpecDerive.              *)
(***************************************************************************)
\* the number of candidates the loop probed before it returned `result`:
\* the position of the result in prefix/slug, prefix/slug-2, ...
Probed(call) ==
    LET seq == ExpectedNames(call.context)
    IN  IF \E k \in 1..Len(seq) : call.result = seq[k]
        THEN CHOOSE k \in 1..Len(seq) : call.result = seq[k]
        ELSE Len(seq) + 1

\* C29: derive_context_branch returns, and the candidate it returns is
\* reached after at most (existing branches + existing directories + 1)
\* candidates.
C29_ProbeBound ==
    \A i \in DeriveIds :
        /\ Probed(d_calls[i]) <= Len(ExpectedNames(d_calls[i].context))
        /\ Probed(d_calls[i]) <= Cardinality(refs) + Cardinality(disk) + 1

\* the bound is met: one branch and one directory exist, each taking a
\* different candidate, and the third candidate is returned
C29_Witness ==
    \E i \in DeriveIds :
        /\ Cardinality(refs) = 1 /\ Cardinality(disk) = 1
        /\ Probed(d_calls[i]) = 3


(***************************************************************************)
(* SpecClean: dux clean on a repository whose worktrees include ones       *)
(* checked out on main and master.  The first branch of a start is the one *)
(* of the main worktree, the others are those of the linked worktrees;     *)
(* every branch is pushed and may have a pull request, open or closed.     *)
(***************************************************************************)
CleanStarts ==
    {<<Str_main, Str_master, Branch_2, Branch_3>>,
     <<Branch_2, Str_main, Str_master, Branch_3>>}
\* the states a pull request starts in; PrMerged merges an open one
PrStates == {"OPEN", "CLOSED"}

InitClean ==
    \E start \in CleanStarts :
        LET bs == {start[k] : k \in 1..Len(start)}
        IN  /\ refs = bs
            /\ disk = {RootPath} \cup {WtDir(b) : b \in bs \ {start[1]}}
            /\ registry = <<[path |-> RootPath, branch |-> start[1]]>>
                              \o RegistryOf(Tail(start), bs)
            /\ wtconfig = <<>>
            /\ wtcfg = FALSE
            /\ files = <<>>
            /\ cfgfile = NoFile
            /\ \E heads \in SUBSET bs : prs \in [heads -> PrStates]
            /\ remote = [b \in bs |-> 1]
            /\ last = NoResult
            /\ invocations = 0
            /\ bound = {}
            /\ d_calls = <<>>
            /\ a_base = 0 /\ a_span = 1 /\ a_used = {} /\ a_calls = <<>>
            /\ NoCallYet
            /\ procs = <<>>

NextClean == Clean \/ PrMerged

SpecClean == InitClean /\ [][NextClean]_vars

\* the runs of dux clean: with or without --all, and the worktrees git
\* fails to remove
CleanRuns == [all : BOOLEAN, stuck : SUBSET LinkedPaths]

\* the i-th worktree of the repository, its directory, its local branch and
\* its remote branch are all still there in `root`
WorktreeKept(root, i) ==
    /\ \E j \in 1..Len(root.worktrees) : root.worktrees[j] = registry[i]
    /\ registry[i].path \in root.disk
    /\ registry[i].branch \in root.refs
    /\ registry[i].branch \in DOMAIN remote => registry[i].branch \in DOMAIN root.remote

\* the i-th worktree of the repository is no longer one of `root`
WorktreeRemoved(root, i) ==
    \A j \in 1..Len(root.worktrees) : root.worktrees[j] # registry[i]

\* C30: whatever the run of dux clean, a worktree checked out on main or
\* master keeps its worktree, its local branch and its remote branch; and a
\* run without --all removes a worktree only if the pull request of its
\* branch is merged.
C30_Protected ==
    \A run \in CleanRuns :
        LET after == cmd_clean(Repo, run.all, run.stuck)
        IN  \A i \in 1..Len(registry) :
                /\ registry[i].branch \in {Str_main, Str_master} => WorktreeKept(after, i)
                /\ (~run.all /\ WorktreeRemoved(after, i)) =>
                       /\ registry[i].branch \in DOMAIN prs
                       /\ prs[registry[i].branch] = "MERGED"

\* after a clean: the linked worktree on master, whose pull request is
\* merged, is still there with its branches, the worktree of issue 3 (merged)
\* is gone with its branches, and the worktree of issue 2 (open) remains
C30_Witness ==
    /\ Len(registry) = 3
    /\ registry[1].branch = Str_main
    /\ registry[2] = [path |-> WtDir(Str_master), branch |-> Str_master]
    /\ registry[3].branch = Branch_2
    /\ Str_master \in refs /\ Str_master \in DOMAIN remote
    /\ Str_master \in DOMAIN prs /\ prs[Str_master] = "MERGED"
    /\ Branch_3 \notin refs /\ Branch_3 \notin DOMAIN remote /\ WtDir(Branch_3) \notin disk
    /\ Branch_3 \in DOMAIN prs /\ prs[Branch_3] = "MERGED"
    /\ Branch_2 \in DOMAIN prs /\ prs[Branch_2] = "OPEN"

=============================================================================
